---- MODULE Spec2Model ----
(***************************************************************************)
(* A model of the MVG pipeline of src/mvg_system_core.py: IntentAnalyzer,  *)
(* CapabilityAssessor, EthicalGuardian, GrowthResponseDesigner and the MVG *)
(* orchestrator with its per-user memory table.                            *)
(*                                                                         *)
(* Text is modelled by strings, which TLC treats as sequences of           *)
(* characters: str.lower(), substring tests, re.search over alternations   *)
(* of literals, str.split() and str.count() are computed character by      *)
(* character.  An Optional value is a record [some, value].  A mutable     *)
(* object handed to a method is modelled by the value the method is given  *)
(* and the value the call leaves behind.                                   *)
(***************************************************************************)
EXTENDS Integers, Sequences, FiniteSets, TLC

VARIABLES
    user_memories,  \* MVG.user_memories: user id -> UserMemory
    clock,          \* the source of datetime.now(): one tick per call
    result,         \* what the last process_request call returned (or raised)
    trace,          \* the intermediate values of the last call
    nonblocked,     \* history: per user, the calls whose verdict let them proceed
    completed       \* history: per user, the calls that returned a result

vars == <<user_memories, clock, result, trace, nonblocked, completed>>

(***************************************************************************)
(* Text primitives                                                         *)
(***************************************************************************)
Ch(s, i) == SubSeq(s, i, i)

LowerOf ==
    "A" :> "a" @@ "B" :> "b" @@ "C" :> "c" @@ "D" :> "d" @@ "E" :> "e" @@
    "F" :> "f" @@ "G" :> "g" @@ "H" :> "h" @@ "I" :> "i" @@ "J" :> "j" @@
    "K" :> "k" @@ "L" :> "l" @@ "M" :> "m" @@ "N" :> "n" @@ "O" :> "o" @@
    "P" :> "p" @@ "Q" :> "q" @@ "R" :> "r" @@ "S" :> "s" @@ "T" :> "t" @@
    "U" :> "u" @@ "V" :> "v" @@ "W" :> "w" @@ "X" :> "x" @@ "Y" :> "y" @@
    "Z" :> "z"

RECURSIVE lower(_)
\* str.lower(): every character lower-cased, the string halved at each step
lower(s) ==
    IF Len(s) = 0 THEN ""
    ELSE IF Len(s) = 1 THEN (IF s \in DOMAIN LowerOf THEN LowerOf[s] ELSE s)
    ELSE lower(SubSeq(s, 1, Len(s) \div 2))
         \o lower(SubSeq(s, Len(s) \div 2 + 1, Len(s)))

\* `w in s` for two strings
Contains(s, w) ==
    \E i \in 1..(Len(s) - Len(w) + 1) : SubSeq(s, i, i + Len(w) - 1) = w

\* re.search(r"(w1|w2|...)", s) for literal alternatives
Search(words, s) == \E w \in words : Contains(s, w)

\* what \s matches and what str.split() splits on
IsSpace(c) == c \in {" ", "\t", "\n"}

\* re.search(r"(a1|a2|...)\s+(b1|b2|...)", s)
SearchSpaced(firsts, seconds, s) ==
    \E a \in firsts, b \in seconds :
      \E i \in 1..Len(s), k \in 1..Len(s) :
        /\ i + Len(a) + k + Len(b) - 1 <= Len(s)
        /\ SubSeq(s, i, i + Len(a) - 1) = a
        /\ \A j \in 0..(k - 1) : IsSpace(Ch(s, i + Len(a) + j))
        /\ SubSeq(s, i + Len(a) + k, i + Len(a) + k + Len(b) - 1) = b

\* len(s.split())
WordCount(s) ==
    Cardinality({i \in 1..Len(s) :
                   /\ ~IsSpace(Ch(s, i))
                   /\ (i = 1 \/ IsSpace(Ch(s, i - 1)))})

\* x in list
InList(x, list) == \E i \in 1..Len(list) : list[i] = x

\* list[-n:]
LastN(list, n) ==
    IF Len(list) <= n THEN list ELSE SubSeq(list, Len(list) - n + 1, Len(list))

\* Optional[T]
Some(v) == [some |-> TRUE, value |-> v]

(***************************************************************************)
(* UserMemory                                                              *)
(***************************************************************************)
\* UserMemory(user_id=user_id): every other field at its default
UserMemory(user_id) ==
    [ user_id              |-> user_id,
      interaction_count    |-> 0,
      request_history      |-> <<>>,
      capability_trend     |-> <<>>,
      topic_expertise      |-> <<>>,
      learning_progress    |-> <<>>,
      last_interaction     |-> [some |-> FALSE, value |-> 0],
      conversation_context |-> <<>> ]

\* memory=None
NoMemory == [some |-> FALSE, value |-> UserMemory("")]

(***************************************************************************)
(* IntentAnalyzer: the steps that read the query alone                     *)
(***************************************************************************)
\* a pattern is the sequence of its alternations, which \s+ separates
PATTERNS ==
    [ direct_solution |->
          << {"write", "do", "solve", "complete", "code", "make", "build", "create"},
             {"my", "the", "this", "your"} >>,
      lazy_seeking |->
          << {"just", "quickly", "fast", "easy", "simple"}, {"give", "show", "tell"} >>,
      genuine_learning |->
          << {"how", "why", "understand", "learn", "explain", "teach", "work", "process"} >>,
      collaboration |->
          << {"together", "help me", "guide", "feedback", "review", "improve"} >>,
      verification |->
          << {"check", "verify", "right", "correct", "validate", "confirm"} >>,
      advanced_exploration |->
          << {"alternative", "optimize", "best", "elegant", "edge", "consider", "deeper"} >> ]

\* re.compile(pattern, re.IGNORECASE).search(text) on lower-cased text
SearchPattern(pattern, text) ==
    IF Len(pattern) = 2
    THEN SearchSpaced(pattern[1], pattern[2], text)
    ELSE Search(pattern[1], text)

\* compiled_patterns[key].search(text); the patterns are only ever applied to
\* lower-cased text
PatternSearch(key, text) == SearchPattern(PATTERNS[key], text)

\* a variant of extract_surface_request that tests for collaboration first
extract_surface_request_collaboration_first(query) ==
    LET query_lower == lower(query) IN
    IF PatternSearch("collaboration", query_lower)
    THEN "Collaborative learning request"
    ELSE IF PatternSearch("direct_solution", query_lower)
    THEN IF PatternSearch("lazy_seeking", query_lower)
         THEN "Shortcut-seeking complete solution"
         ELSE "Request for complete solution"
    ELSE IF PatternSearch("verification", query_lower)
    THEN "Verification/validation request"
    ELSE IF PatternSearch("advanced_exploration", query_lower)
    THEN "Advanced exploration request"
    ELSE IF PatternSearch("genuine_learning", query_lower)
    THEN "Request for understanding/learning"
    ELSE "General inquiry"

\* a variant of extract_surface_request for which lazy_seeking alone makes a
\* shortcut request
extract_surface_request_lazy_alone(query) ==
    LET query_lower == lower(query) IN
    IF PatternSearch("lazy_seeking", query_lower)
    THEN "Shortcut-seeking complete solution"
    ELSE IF PatternSearch("direct_solution", query_lower)
    THEN "Request for complete solution"
    ELSE IF PatternSearch("collaboration", query_lower)
    THEN "Collaborative learning request"
    ELSE IF PatternSearch("verification", query_lower)
    THEN "Verification/validation request"
    ELSE IF PatternSearch("advanced_exploration", query_lower)
    THEN "Advanced exploration request"
    ELSE IF PatternSearch("genuine_learning", query_lower)
    THEN "Request for understanding/learning"
    ELSE "General inquiry"

\* IntentAnalyzer._extract_surface_request
extract_surface_request(query) ==
    LET query_lower == lower(query) IN
    IF PatternSearch("direct_solution", query_lower)
    THEN IF PatternSearch("lazy_seeking", query_lower)
         THEN "Shortcut-seeking complete solution"
         ELSE "Request for complete solution"
    ELSE IF PatternSearch("collaboration", query_lower)
    THEN "Collaborative learning request"
    ELSE IF PatternSearch("verification", query_lower)
    THEN "Verification/validation request"
    ELSE IF PatternSearch("advanced_exploration", query_lower)
    THEN "Advanced exploration request"
    ELSE IF PatternSearch("genuine_learning", query_lower)
    THEN "Request for understanding/learning"
    ELSE "General inquiry"

\* a variant of keyword_need whose last return is that of the life keywords
keyword_need_life_default(query) ==
    LET query_lower == lower(query) IN
    IF /\ Search({"homework", "assignment", "exam"}, query_lower)
       /\ Search({"write", "solve"}, query_lower)
    THEN "Understanding the material deeply"
    ELSE IF Search({"business", "startup", "company", "career"}, query_lower)
    THEN "Strategic thinking and confidence"
    ELSE IF Search({"algorithm", "code", "debug", "architecture"}, query_lower)
    THEN "Problem-solving mastery"
    ELSE "Clarity, wisdom, and self-understanding"

\* the keyword cascade of _infer_deep_need, which reads the query alone
keyword_need(query) ==
    LET query_lower == lower(query) IN
    IF /\ Search({"homework", "assignment", "exam"}, query_lower)
       /\ Search({"write", "solve"}, query_lower)
    THEN "Understanding the material deeply"
    ELSE IF Search({"business", "startup", "company", "career"}, query_lower)
    THEN "Strategic thinking and confidence"
    ELSE IF Search({"life", "decision", "should i", "advice"}, query_lower)
    THEN "Clarity, wisdom, and self-understanding"
    ELSE IF Search({"algorithm", "code", "debug", "architecture"}, query_lower)
    THEN "Problem-solving mastery"
    ELSE "Knowledge or skill development"

analyze_motivation(query, deep_need) ==
    LET query_lower == lower(query) IN
    IF Search({"urgent", "deadline", "tomorrow", "tonight", "asap", "quickly",
               "fast", "hurry", "due"}, query_lower)
    THEN "Time pressure / Procrastination"
    ELSE IF Search({"afraid", "worried", "scared", "don't know", "lost",
                    "confused", "stuck", "help", "desperate"}, query_lower)
    THEN "Fear of failure / Lack of confidence"
    ELSE IF Search({"just give", "simply", "quick", "easy", "shortcut",
                    "without", "don't want to"}, query_lower)
    THEN "Convenience seeking / Avoiding effort"
    ELSE IF Search({"why", "how", "curious", "wonder", "interested",
                    "want to understand"}, query_lower)
    THEN "Intrinsic motivation / Growth mindset"
    ELSE "Desire for growth and improvement"

\* flags.append(flag) when cond holds
AppendIf(flags, cond, flag) == IF cond THEN Append(flags, flag) ELSE flags

\* the words of the harm check of line 251
HarmWords == {"hurt", "damage", "attack", "harm", "destroy", "sabotage", "harmful"}

\* the five checks of _detect_ethical_flags that read the text of the query
\* and the surface label alone
flags_of(text, surface) ==
    LET f1 == AppendIf(<<>>,
                 \/ Contains(lower(surface), "complete solution")
                 \/ Contains(lower(surface), "shortcut"),
                 "potential_dependency_creation")
        f2 == AppendIf(f1,
                 Search({"fake", "pretend", "trick", "manipulate", "deceive",
                         "cheat", "fraud", "dishonest"}, text),
                 "deception_intent")
        f3 == AppendIf(f2, Search(HarmWords, text), "potential_harm")
        f4 == AppendIf(f3,
                 Search({"racism", "sexism", "discriminat", "bigot", "hate",
                         "prejudice", "stereotype"}, text),
                 "bias_or_discrimination")
    IN AppendIf(f4,
          Search({"must do", "force", "pressure", "coerce", "blackmail",
                  "threaten"}, text),
          "coercion_pressure")

\* a variant of pattern_flags that searches the query as typed
pattern_flags_as_typed(query, surface) == flags_of(query, surface)

\* _detect_ethical_flags up to the repetition check: query_lower = query.lower()
pattern_flags(query, surface) == flags_of(lower(query), surface)

(***************************************************************************)
(* CapabilityAssessor: the steps that read the query alone                 *)
(***************************************************************************)
Min(a, b) == IF a < b THEN a ELSE b
Max(a, b) == IF a > b THEN a ELSE b

\* score += delta when cond holds
AddIf(score, cond, delta) == IF cond THEN score + delta ELSE score

assess_reasoning_quality(query) ==
    LET query_lower == lower(query)
        s0 == 10
        s1 == AddIf(s0, Search({"because", "however", "although", "consider",
                                "analyze", "depends on", "factors"}, query_lower), 15)
        s2 == AddIf(s1, Search({"on the one hand", "alternatively", "versus",
                                "compared to", "trade-off"}, query_lower), 5)
        s3 == AddIf(s2, Search({"don't understand", "confused", "lost",
                                "no idea"}, query_lower), -5)
    IN Max(0, Min(30, s3))

\* a variant of assess_self_awareness without the final clamp
assess_self_awareness_unclamped(query) ==
    LET query_lower == lower(query)
        s1 == AddIf(10, Search({"i don't", "i can't", "i'm weak", "i'm struggling",
                                "i need help"}, query_lower), 10)
        s2 == AddIf(s1, Search({"tried", "attempted", "explored", "tested",
                                "experimented"}, query_lower), 5)
        s3 == AddIf(s2, Search({"how do i learn", "my approach", "my method",
                                "how can i"}, query_lower), 5)
    IN AddIf(s3, Search({"obviously", "clearly", "simple", "easy",
                         "anyone knows"}, query_lower), -10)

assess_self_awareness(query) ==
    LET query_lower == lower(query)
        s0 == 10
        s1 == AddIf(s0, Search({"i don't", "i can't", "i'm weak", "i'm struggling",
                                "i need help"}, query_lower), 10)
        s2 == AddIf(s1, Search({"tried", "attempted", "explored", "tested",
                                "experimented"}, query_lower), 5)
        s3 == AddIf(s2, Search({"how do i learn", "my approach", "my method",
                                "how can i"}, query_lower), 5)
        s4 == AddIf(s3, Search({"obviously", "clearly", "simple", "easy",
                                "anyone knows"}, query_lower), -10)
    IN Max(0, Min(25, s4))

assess_effort_shown(query) ==
    LET query_lower == lower(query)
        s0 == 8
        s1 == AddIf(s0, Search({"i tried", "attempted", "worked on", "experimented",
                                "tested"}, query_lower), 12)
        s2 == AddIf(s1, WordCount(query) > 40, 5)
        s3 == AddIf(s2, Cardinality({i \in 1..Len(query) : Ch(query, i) = "?"}) > 1, 5)
        s4 == AddIf(s3, Search({"just", "quick", "fast", "simple",
                                "without effort"}, query_lower), -8)
    IN Max(0, Min(25, s4))

COMPETENCY_KEYWORDS ==
    [ analysis      |-> {"analyze", "examine", "breakdown", "decompose", "understand why"},
      application   |-> {"implement", "apply", "use", "create", "build"},
      synthesis     |-> {"combine", "integrate", "design", "solve", "optimize"},
      metacognition |-> {"how do i learn", "my approach", "my method", "i've tried"} ]

\* the strengths the keyword loop appends, in the order of the dict
keyword_strengths(query) ==
    LET query_lower == lower(query)
        s1 == AppendIf(<<>>, Search(COMPETENCY_KEYWORDS.analysis, query_lower),
                       "Strong analytical thinking")
        s2 == AppendIf(s1, Search(COMPETENCY_KEYWORDS.synthesis, query_lower),
                       "Can integrate and synthesize ideas")
    IN AppendIf(s2, Search(COMPETENCY_KEYWORDS.metacognition, query_lower),
                "Self-aware learner")

(***************************************************************************)
(* The text tests of the EthicalGuardian and the GrowthResponseDesigner    *)
(***************************************************************************)
\* the test of _check_dependency on one entry r of request_history
counts_as_shortcut(r) ==
    Contains(lower(r), "shortcut") \/ Contains(lower(r), "write")

extract_motivation_tone(motivation) ==
    LET motivation_lower == lower(motivation) IN
    IF Contains(motivation_lower, "fear") \/ Contains(motivation_lower, "anxiety")
    THEN "fear"
    ELSE IF \/ Contains(motivation_lower, "lazy")
            \/ Contains(motivation_lower, "shortcut")
            \/ Contains(motivation_lower, "convenience")
    THEN "laziness"
    ELSE IF Contains(motivation_lower, "pressure") \/ Contains(motivation_lower, "time")
    THEN "urgency"
    ELSE IF Contains(motivation_lower, "growth") \/ Contains(motivation_lower, "improvement")
    THEN "genuine"
    ELSE "neutral"

\* the opening line _design_for_advanced chooses
advanced_template(surface_request) ==
    IF Contains(lower(surface_request), "verify")
    THEN "Your analysis looks thoughtful. Let's stress-test it."
    ELSE IF \/ Contains(lower(surface_request), "optim")
            \/ Contains(lower(surface_request), "better")
    THEN "You understand the basics well. Now let's pursue elegance."
    ELSE "You're at a level where the real growth comes from wrestling with complexity."

(***************************************************************************)
(* The texts of the model.  Queries are the queries of the request         *)
(* sequences; CallQueries are those of the single calls, which cover every *)
(* pattern alone and in combination.                                       *)
(***************************************************************************)
QShortcut == "Just give me the answer and write my essay"
QWorked == "I worked on it"
QBecause == "I worked on it because it matters"
QConfused == "I am just confused"
QHarm == "How to SABOTAGE a rival"
QEssay == "Write my essay about climate change. It's due tomorrow and I haven't started."
QMath == "Can you just solve these math problems? I have 5 more assignments due."
QStuck == "I tried the first problem like you suggested. I got the concept but I'm stuck on how to apply it to this other case."
QVerify == "I've analyzed this algorithm and think it's O(n log n). Can you verify my reasoning? I considered the recursion depth and the loop within."
QLong == "so we worked on a b c d e f g h i j k l m n o p q r s t u v w x y z a b c d e f g h i j k and then some? more? words"

Queries == {"", QShortcut, QWorked, QBecause, QConfused, QHarm}

CallQueries ==
    Queries \cup
    { QEssay, QMath, QStuck, QVerify, QLong,
      "Help me, just   tell me: write\tthe code",
      "write my essay to sabotage them",
      "I must do this, write my report",
      "help me cheat",
      "they hate me, force them",
      "general inquiry",
      "I tried it because I worked on it. Is it right? Is it best?",
      "Can you verify this because I tested it? Really?",
      "optimize, because I tested the better one?? however",
      "I can't. I tried. how can i learn this",
      "simple",
      "pharmacy copyright",
      "DO  MY homework, QUICKLY SHOW me",
      "should i start a business",
      "debug the exam: solve it",
      "obviously easy, simple, without effort; on the one hand lost",
      "explain why",
      "consider the edge",
      "fast show",
      "i'm struggling. i attempted, explored my approach; compared to others? why? i don't understand" }

(***************************************************************************)
(* TLC evaluates a constant once.  The tables hold, for every text of the  *)
(* model, the values of the functions above that read that text alone, so  *)
(* that a step does not scan the text again.                               *)
(***************************************************************************)
QueryFacts(q, surface, need) ==
    [ query_lower       |-> lower(q),
      surface           |-> surface,
      keyword_need      |-> need,
      motivation        |-> analyze_motivation(q, need),
      pattern_flags     |-> pattern_flags(q, surface),
      reasoning         |-> assess_reasoning_quality(q),
      awareness         |-> assess_self_awareness(q),
      effort            |-> assess_effort_shown(q),
      keyword_strengths |-> keyword_strengths(q) ]

QueryMemo ==
    [ q \in CallQueries |-> QueryFacts(q, extract_surface_request(q), keyword_need(q)) ]

\* the labels _extract_surface_request and _analyze_motivation return, and
\* one request_history entry that only a caller of evaluate can supply
Labels ==
    { "WRITE my essay",
      "Shortcut-seeking complete solution", "Request for complete solution",
      "Collaborative learning request", "Verification/validation request",
      "Advanced exploration request", "Request for understanding/learning",
      "General inquiry",
      "Time pressure / Procrastination", "Fear of failure / Lack of confidence",
      "Convenience seeking / Avoiding effort",
      "Intrinsic motivation / Growth mindset", "Desire for growth and improvement" }

LabelMemo ==
    [ l \in Labels |->
        [ counts_as_shortcut |-> counts_as_shortcut(l),
          motivation_tone    |-> extract_motivation_tone(l),
          advanced_template  |-> advanced_template(l) ] ]

(***************************************************************************)
(* IntentAnalyzer: the steps that read the memory                          *)
(***************************************************************************)
\* learning_progress is an insertion-ordered dict: a sequence of <<topic, level>>.
\* query is the entry of QueryMemo for the text of the query.
infer_deep_need(query, surface, memory) ==
    LET progress == IF memory.some THEN memory.value.learning_progress ELSE <<>>
        hits == {i \in 1..Len(progress) :
                   Contains(query.query_lower, lower(progress[i][1]))}
    IN IF hits # {}
       THEN "Mastery in " \o progress[CHOOSE i \in hits : \A j \in hits : i <= j][1]
       ELSE query.keyword_need

\* a variant of detect_ethical_flags that compares the query with the history
\* entries in lower case
detect_ethical_flags_any_case(query, surface, memory) ==
    AppendIf(query.pattern_flags,
             /\ memory.some
             /\ Len(memory.value.request_history) > 0
             /\ \E i \in 1..Len(memory.value.request_history) :
                   /\ i > Len(memory.value.request_history) - 3
                   /\ lower(memory.value.request_history[i]) = query.query_lower,
             "repetitive_dependency")

\* IntentAnalyzer._detect_ethical_flags: the flags of the patterns, which
\* QueryMemo holds, and the flag of the repeated request
detect_ethical_flags(query, surface, memory) ==
    AppendIf(query.pattern_flags,
             /\ memory.some
             /\ Len(memory.value.request_history) > 0
             /\ InList(query.query_lower, LastN(memory.value.request_history, 3)),
             "repetitive_dependency")

\* a variant of identify_growth_opportunity that compares with the deep needs
\* _infer_deep_need returns
identify_growth_opportunity_current_needs(surface, deep_need, ethical_flags) ==
    IF InList("potential_dependency_creation", ethical_flags)
    THEN "Transform complete solution request into guided learning"
    ELSE IF deep_need = "Strategic thinking and confidence"
    THEN "Build confidence through guided discovery"
    ELSE IF deep_need = "Clarity, wisdom, and self-understanding"
    THEN "Facilitate self-reflection and insight"
    ELSE "Develop problem-solving capability"

\* IntentAnalyzer._identify_growth_opportunity
identify_growth_opportunity(surface, deep_need, ethical_flags) ==
    IF InList("potential_dependency_creation", ethical_flags)
    THEN "Transform complete solution request into guided learning"
    ELSE IF deep_need = "Confidence and structured thinking"
    THEN "Build confidence through guided discovery"
    ELSE IF deep_need = "Clarity and self-understanding"
    THEN "Facilitate self-reflection and insight"
    ELSE "Develop problem-solving capability"

\* the Intent analyze returns, given the results of its first four steps
intent_of(surface, deep_need, motivation, ethical_flags) ==
    [ surface_request       |-> surface,
      deep_need             |-> deep_need,
      underlying_motivation |-> motivation,
      ethical_flags         |-> ethical_flags,
      growth_opportunity    |->
          identify_growth_opportunity(surface, deep_need, ethical_flags) ]

\* analyze on the entry of QueryMemo for the text of the query
analyze_query(query, memory) ==
    intent_of(query.surface,
              infer_deep_need(query, query.surface, memory),
              query.motivation,
              detect_ethical_flags(query, query.surface, memory))

\* IntentAnalyzer.analyze
analyze(user_query, memory) == analyze_query(QueryMemo[user_query], memory)

(***************************************************************************)
(* CapabilityAssessor: the steps that read the memory or the score         *)
(***************************************************************************)
\* a variant of analyze_learning_trajectory that compares the latest score
\* with the first of the whole trend
analyze_learning_trajectory_whole_trend(memory) ==
    IF ~memory.some \/ memory.value.capability_trend = <<>>
    THEN 10
    ELSE LET recent_scores == memory.value.capability_trend
             first == recent_scores[1]
             last == recent_scores[Len(recent_scores)]
         IN IF Len(recent_scores) > 1 /\ last > first
            THEN 10 + Min(10, (last - first) \div 5)
            ELSE IF Len(recent_scores) > 1 /\ last < first
            THEN Max(0, 10 - 5)
            ELSE 10

\* CapabilityAssessor._analyze_learning_trajectory
analyze_learning_trajectory(memory) ==
    IF ~memory.some \/ memory.value.capability_trend = <<>>
    THEN 10
    ELSE LET recent_scores == LastN(memory.value.capability_trend, 5)
             first == recent_scores[1]
             last == recent_scores[Len(recent_scores)]
         IN IF Len(recent_scores) > 1 /\ last > first
            THEN 10 + Min(10, (last - first) \div 5)
            ELSE IF Len(recent_scores) > 1 /\ last < first
            THEN Max(0, 10 - 5)
            ELSE 10

\* a variant of calculate_capability_score that leaves the trajectory out
calculate_capability_score_without_trajectory(reasoning_quality, self_awareness, effort, trajectory) ==
    reasoning_quality + self_awareness + effort

calculate_capability_score(reasoning_quality, self_awareness, effort, trajectory) ==
    reasoning_quality + self_awareness + effort + trajectory

\* a variant of capability_level whose bands include their upper ends
capability_level_inclusive(score) ==
    IF score <= 30 THEN "beginner"
    ELSE IF score <= 70 THEN "intermediate"
    ELSE "advanced"

\* the level of lines 333-339, as CapabilityLevel.*.value
capability_level(score) ==
    IF score < 30 THEN "beginner"
    ELSE IF score < 70 THEN "intermediate"
    ELSE "advanced"

RECURSIVE progress_labels(_, _, _, _)
\* the labels the learning_progress loop appends for entries of level `level`
progress_labels(progress, query_lower, level, prefix) ==
    IF progress = <<>> THEN <<>>
    ELSE LET topic == progress[1][1]
             rest == progress_labels(Tail(progress), query_lower, level, prefix)
         IN IF Contains(query_lower, lower(topic)) /\ progress[1][2] = level
            THEN <<prefix \o topic>> \o rest
            ELSE rest

\* the additions of lines 480-489 to the strengths and weaknesses found
level_competencies(strengths, weaknesses, score) ==
    IF score < 30
    THEN [ strengths  |-> strengths,
           weaknesses |-> Append(weaknesses,
                                 "Needs foundational knowledge and practice") ]
    ELSE IF score > 70
    THEN [ strengths  |-> Append(strengths, "Demonstrates advanced understanding"),
           weaknesses |-> weaknesses ]
    ELSE [ strengths  |-> Append(strengths, "Has solid foundational knowledge"),
           weaknesses |-> Append(weaknesses,
                                 "Can deepen understanding of nuanced concepts") ]

\* query is the entry of QueryMemo for the text of the query
identify_competencies(query, score, memory) ==
    LET progress == IF memory.some THEN memory.value.learning_progress ELSE <<>>
    IN level_competencies(
           query.keyword_strengths
               \o progress_labels(progress, query.query_lower, "improving",
                                  "Making progress in "),
           progress_labels(progress, query.query_lower, "beginner",
                           "Building foundational skills in "),
           score)

generate_comprehensive_evidence(reasoning, awareness, effort, score) ==
    "Assessment based on: reasoning quality (" \o ToString(reasoning) \o "/30), "
    \o "self-awareness (" \o ToString(awareness) \o "/25), effort shown ("
    \o ToString(effort) \o "/25), "
    \o "resulting in overall capability score of " \o ToString(score) \o "/100"

\* the CapabilityAssessment assess returns, given the four indicators
assessment(user_query, memory, reasoning_quality, self_awareness, effort_and_thought, learning_trajectory, score, competencies) ==
    [ level      |-> capability_level(score),
      score      |-> score,
      strengths  |-> competencies.strengths,
      weaknesses |-> competencies.weaknesses,
      evidence   |-> generate_comprehensive_evidence(
                         reasoning_quality, self_awareness,
                         effort_and_thought, score),
      \* the four addends of the score, kept for the claims about them
      parts      |-> [ reasoning  |-> reasoning_quality,
                       awareness  |-> self_awareness,
                       effort     |-> effort_and_thought,
                       trajectory |-> learning_trajectory ] ]

\* assess from the score on
scored(user_query, memory, reasoning_quality, self_awareness, effort_and_thought, learning_trajectory, score) ==
    assessment(user_query, memory, reasoning_quality, self_awareness,
               effort_and_thought, learning_trajectory, score,
               identify_competencies(user_query, score, memory))

\* assess from the four indicators on
indicated(user_query, memory, reasoning_quality, self_awareness, effort_and_thought, learning_trajectory) ==
    scored(user_query, memory, reasoning_quality, self_awareness,
           effort_and_thought, learning_trajectory,
           calculate_capability_score(reasoning_quality, self_awareness,
                                      effort_and_thought, learning_trajectory))

\* assess on the entry of QueryMemo for the text of the query
assess_query(query, memory) ==
    indicated(query, memory, query.reasoning, query.awareness, query.effort,
              analyze_learning_trajectory(memory))

\* CapabilityAssessor.assess
assess(user_query, memory) == assess_query(QueryMemo[user_query], memory)

(***************************************************************************)
(* EthicalGuardian                                                         *)
(***************************************************************************)
None == [some |-> FALSE, value |-> ""]

check_harm(intent) == InList("potential_harm", intent.ethical_flags)

check_manipulation(intent) == InList("deception_intent", intent.ethical_flags)

\* sum(1 for r in request_history if "shortcut" in r.lower() or "write" in r.lower())
shortcut_pattern(request_history) ==
    Cardinality({i \in 1..Len(request_history) :
                   LabelMemo[request_history[i]].counts_as_shortcut})

\* a variant of check_dependency that escalates at 60% already
check_dependency_at_sixty_percent(intent, memory) ==
    LET has_dependency_flag ==
            InList("potential_dependency_creation", intent.ethical_flags)
    IN IF InList("repetitive_dependency", intent.ethical_flags)
       THEN TRUE
       ELSE IF /\ memory.some
               /\ memory.value.interaction_count > 10
               /\ 10 * shortcut_pattern(memory.value.request_history)
                    >= 6 * memory.value.interaction_count
       THEN TRUE
       ELSE has_dependency_flag

\* `n > count * 0.6` in floating point; for every count below 60 the double
\* count * 0.6 compares with an integer n as the exact product does
check_dependency(intent, memory) ==
    LET has_dependency_flag ==
            InList("potential_dependency_creation", intent.ethical_flags)
    IN IF InList("repetitive_dependency", intent.ethical_flags)
       THEN TRUE
       ELSE IF /\ memory.some
               /\ memory.value.interaction_count > 10
               /\ 10 * shortcut_pattern(memory.value.request_history)
                    > 6 * memory.value.interaction_count
       THEN TRUE
       ELSE has_dependency_flag

check_dignity(intent) ==
    \E flag \in {"coercion_pressure", "violation_dignity"} :
        InList(flag, intent.ethical_flags)

check_bias(intent) == InList("bias_or_discrimination", intent.ethical_flags)

\* the redirect of lines 611-615
HarmRedirect ==
    "I cannot assist with this request as it may cause harm. "
    \o "However, I'd like to help you achieve your underlying goal "
    \o "in a way that benefits everyone involved. What's the positive "
    \o "outcome you're trying to reach?"

\* a variant of generate_redirect that looks for the dignity concern before the
\* dependency concern
generate_redirect_dignity_first(intent, concerns) ==
    IF InList("Direct harm potential", concerns)
    THEN HarmRedirect
    ELSE IF InList("Manipulation or deception", concerns)
    THEN "I can't help with deception, but I absolutely can help you "
         \o "communicate what you need more effectively and honestly. "
         \o "Authentic communication actually works better. What's really "
         \o "going on here?"
    ELSE IF InList("Violates human dignity", concerns)
    THEN "This request involves pressure or coercion, which I can't support. "
         \o "But I can help you find a way to get what you need that respects "
         \o "everyone's dignity and autonomy. Let's explore that together."
    ELSE IF InList("Creates unhealthy dependency", concerns)
    THEN "I notice you might be building a pattern of asking for solutions "
         \o "rather than learning. That would actually make you weaker, not stronger. "
         \o "Let me help you become independent and capable instead. Ready?"
    ELSE IF InList("Contains harmful bias or discrimination", concerns)
    THEN "I notice this request involves stereotyping or discrimination. "
         \o "Instead, let me help you see the fuller picture and connect with "
         \o "the real humanity in this situation. That's where real solutions come from."
    ELSE "I cannot fulfill this request as stated, but I can help you find a better path forward."

\* EthicalGuardian._generate_redirect
generate_redirect(intent, concerns) ==
    IF InList("Direct harm potential", concerns)
    THEN HarmRedirect
    ELSE IF InList("Manipulation or deception", concerns)
    THEN "I can't help with deception, but I absolutely can help you "
         \o "communicate what you need more effectively and honestly. "
         \o "Authentic communication actually works better. What's really "
         \o "going on here?"
    ELSE IF InList("Creates unhealthy dependency", concerns)
    THEN "I notice you might be building a pattern of asking for solutions "
         \o "rather than learning. That would actually make you weaker, not stronger. "
         \o "Let me help you become independent and capable instead. Ready?"
    ELSE IF InList("Violates human dignity", concerns)
    THEN "This request involves pressure or coercion, which I can't support. "
         \o "But I can help you find a way to get what you need that respects "
         \o "everyone's dignity and autonomy. Let's explore that together."
    ELSE IF InList("Contains harmful bias or discrimination", concerns)
    THEN "I notice this request involves stereotyping or discrimination. "
         \o "Instead, let me help you see the fuller picture and connect with "
         \o "the real humanity in this situation. That's where real solutions come from."
    ELSE "I cannot fulfill this request as stated, but I can help you find a better path forward."

\* a variant of must_stop that counts the dependency check as a red flag
must_stop_on_any_concern(harm_check, manipulation_check, dependency_check, dignity_check, bias_check) ==
    harm_check \/ manipulation_check \/ dependency_check \/ dignity_check \/ bias_check

\* "Red flags (must stop)": line 556
must_stop(harm_check, manipulation_check, dependency_check, dignity_check, bias_check) ==
    harm_check \/ manipulation_check \/ dignity_check \/ bias_check

\* a variant of redirect_for that writes a redirect for every concern
redirect_for_any_concern(intent, concerns, should_proceed) ==
    IF concerns # <<>> THEN Some(generate_redirect(intent, concerns)) ELSE None

\* "Generate redirect if needed": lines 559-562
redirect_for(intent, concerns, should_proceed) ==
    IF ~should_proceed THEN Some(generate_redirect(intent, concerns)) ELSE None

\* EthicalGuardian.evaluate
evaluate(intent, memory) ==
    LET harm_check == check_harm(intent)
        manipulation_check == check_manipulation(intent)
        dependency_check == check_dependency(intent, memory)
        dignity_check == check_dignity(intent)
        bias_check == check_bias(intent)
        c1 == AppendIf(<<>>, harm_check, "Direct harm potential")
        c2 == AppendIf(c1, manipulation_check, "Manipulation or deception")
        c3 == AppendIf(c2, dependency_check, "Creates unhealthy dependency")
        c4 == AppendIf(c3, dignity_check, "Violates human dignity")
        concerns == AppendIf(c4, bias_check, "Contains harmful bias or discrimination")
        should_proceed == ~must_stop(harm_check, manipulation_check, dependency_check,
                                     dignity_check, bias_check)
    IN [ is_harmful          |-> harm_check,
         is_manipulative     |-> manipulation_check,
         creates_dependency  |-> dependency_check,
         violates_dignity    |-> dignity_check,
         concerns            |-> concerns,
         should_proceed      |-> should_proceed,
         redirect_suggestion |-> redirect_for(intent, concerns, should_proceed) ]

(***************************************************************************)
(* GrowthResponseDesigner                                                  *)
(***************************************************************************)
RECURSIVE JoinComma(_)
\* ', '.join(list)
JoinComma(list) ==
    IF list = <<>> THEN ""
    ELSE IF Len(list) = 1 THEN list[1]
    ELSE list[1] \o ", " \o JoinComma(Tail(list))

RECURSIVE strip(_)
\* str.strip()
strip(s) ==
    IF Len(s) = 0 THEN s
    ELSE IF IsSpace(Ch(s, 1)) THEN strip(SubSeq(s, 2, Len(s)))
    ELSE IF IsSpace(Ch(s, Len(s))) THEN strip(SubSeq(s, 1, Len(s) - 1))
    ELSE s

BEGINNER_TEMPLATES ==
    [ fear |-> "I can see you're worried about this, and that's completely natural. "
               \o "Let's break this down into tiny, manageable pieces so you can "
               \o "build real confidence.",
      laziness |-> "I get it - deadlines are stressful. But here's the thing: doing it "
                   \o "yourself, even slowly, will actually make you feel way better "
                   \o "than taking a shortcut.",
      genuine |-> "Great question! You're asking the right things. Let me help you "
                  \o "build a real foundation here." ]

INTERMEDIATE_TEMPLATES ==
    [ fear |-> "You've got more capability here than you think. Let me show you how "
               \o "to find the solution yourself.",
      laziness |-> "You're better than shortcuts. Let's find an efficient way that "
                   \o "still builds your skills.",
      genuine |-> "Excellent thinking. You're ready to develop mastery. Let me "
                  \o "challenge you appropriately." ]

\* dict.get(key, default) over the three template keys
TemplateGet(templates, key, default) ==
    IF key \in DOMAIN templates THEN templates[key] ELSE default

create_redirect_response(intent, verdict) ==
    [ response_text |->
          IF verdict.redirect_suggestion.some /\ verdict.redirect_suggestion.value # ""
          THEN verdict.redirect_suggestion.value
          ELSE "I need to pause here.",
      reasoning_log |->
          "Ethical concerns detected: " \o JoinComma(verdict.concerns) \o ". "
          \o "Providing ethical redirect to help user find better path.",
      capability_addressed |-> "Ethical decision-making and values",
      expected_outcome |->
          "User reflects on their approach and finds ethical alternative",
      follow_up_suggestions |->
          << "Tell me more about what you're trying to achieve",
             "What would a version of this that you'd be proud of look like?",
             "How can I help you reach your goal ethically?" >>,
      independence_score_impact |-> "maintains (and strengthens values)" ]

BeginnerPlan ==
    "\n"
    \o "\n"
    \o "**Here's our game plan:**\n"
    \o "\n"
    \o "1. **Concept Building** - I'll explain the key ideas simply\n"
    \o "2. **Example Walk-Through** - We'll work through a real example together "
    \o " \n"
    \o "3. **Your Turn** - You'll try something similar with me coaching\n"
    \o "4. **Reflection** - We'll review what you learned\n"
    \o "\n"
    \o "This way, you won't just solve this problem - you'll be able to handle "
    \o "similar ones on your own.\n"
    \o "\n"
    \o "**Ready?** What's the part that confuses you most?\n"

design_for_beginner(intent, capability, motivation_tone, memory) ==
    LET template == TemplateGet(BEGINNER_TEMPLATES, motivation_tone,
                                BEGINNER_TEMPLATES.genuine)
        response_text ==
            template \o "\n"
            \o "\n"
            \o "**Let's see your actual situation:**\n"
            \o (IF capability.strengths # <<>>
                THEN JoinComma(capability.strengths)
                ELSE "You're taking the initiative to learn")
            \o "\n"
            \o "\n"
            \o "**What we need to work on together:**\n"
            \o (IF capability.weaknesses # <<>>
                THEN capability.weaknesses[1]
                ELSE "Building core understanding")
            \o BeginnerPlan
    IN [ response_text |-> strip(response_text),
         reasoning_log |->
             "Beginner level (" \o ToString(capability.score) \o "/100). Motivation: "
             \o motivation_tone \o ". "
             \o "Using foundational teaching with " \o motivation_tone
             \o "-aware approach. "
             \o "Growth opportunity: " \o intent.growth_opportunity,
         capability_addressed |->
             IF capability.weaknesses # <<>>
             THEN capability.weaknesses[1]
             ELSE "Core foundations",
         expected_outcome |->
             "User gains real understanding + confidence to solve similar problems",
         follow_up_suggestions |->
             << "Show me your attempt after my explanation",
                "Ask about any confusing parts",
                "Try a similar problem to test yourself" >>,
         independence_score_impact |-> "increases significantly" ]

IntermediatePlan ==
    "\n"
    \o "\n"
    \o "**Let's think strategically:**\n"
    \o "\n"
    \o "1. **Core Question** - What's the real challenge here? (Not just the surface)\n"
    \o "2. **Your Approach** - What have you tried? What approaches could work?\n"
    \o "3. **Testing** - How would you verify if your solution is right?\n"
    \o "4. **Refinement** - What would make it better/more elegant?\n"
    \o "\n"
    \o "**Your task:**\n"
    \o "- Work through these questions\n"
    \o "- Share your reasoning with me\n"
    \o "- We'll iterate until you've got it solid\n"
    \o "\n"
    \o "**Why this way?** You have the skills. You just need to organize your "
    \o "thinking at a deeper level. That's how you move from competent to confident.\n"
    \o "\n"
    \o "What insights do you have so far?\n"

design_for_intermediate(intent, capability, motivation_tone, memory) ==
    LET template == TemplateGet(INTERMEDIATE_TEMPLATES, motivation_tone,
                                INTERMEDIATE_TEMPLATES.genuine)
        response_text ==
            template \o "\n"
            \o "\n"
            \o "**I notice:** "
            \o (IF capability.strengths # <<>>
                THEN capability.strengths[1]
                ELSE "You have solid foundational knowledge")
            \o IntermediatePlan
    IN [ response_text |-> strip(response_text),
         reasoning_log |->
             "Intermediate level (" \o ToString(capability.score)
             \o "/100). Motivation: " \o motivation_tone \o ". "
             \o "Using strategic guidance + reflection prompts. "
             \o "Goal: Develop independent problem-solving confidence.",
         capability_addressed |->
             "Strategic thinking and problem-solving methodology",
         expected_outcome |->
             "User develops deeper understanding and structured approach",
         follow_up_suggestions |->
             << "Share your approach and reasoning",
                "Ask for feedback on your thinking",
                "Explore alternative solutions",
                "Build toward mastery" >>,
         independence_score_impact |-> "increases significantly" ]

AdvancedPlan ==
    "\n"
    \o "\n"
    \o "**Beyond the obvious:**\n"
    \o "\n"
    \o "1. **Assumptions** - What are you assuming? Why? What if they're wrong?\n"
    \o "2. **Edge Cases** - What breaks your solution? How would you handle those?\n"
    \o "3. **Trade-offs** - What's the cost of your approach? Any alternatives?\n"
    \o "4. **Deeper Why** - Why does this matter? What's the principle here?\n"
    \o "5. **Mastery** - What would an expert do? How would they think about this?\n"
    \o "\n"
    \o "**Challenge yourself with:**\n"
    \o "- Can you find three different valid approaches?\n"
    \o "- Which is most elegant and why?\n"
    \o "- How would you explain this to someone very smart but in a different "
    \o "field?\n"
    \o "- What have you learned that applies beyond this specific problem?\n"
    \o "\n"
    \o "This is where real mastery comes from - not from having answers, but from "
    \o "understanding the space deeply enough to generate excellent solutions.\n"
    \o "\n"
    \o "What's your thinking so far?\n"

design_for_advanced(intent, capability, motivation_tone, memory) ==
    LET template == LabelMemo[intent.surface_request].advanced_template
        response_text == template \o AdvancedPlan
    IN [ response_text |-> strip(response_text),
         reasoning_log |->
             "Advanced level (" \o ToString(capability.score) \o "/100). Motivation: "
             \o motivation_tone \o ". "
             \o "Using Socratic method to deepen critical thinking. "
             \o "Goal: Move toward independent mastery and intellectual leadership.",
         capability_addressed |->
             "Advanced problem-solving, systems thinking, and intellectual independence",
         expected_outcome |->
             "User achieves deeper insight, explores multiple perspectives, develops mastery",
         follow_up_suggestions |->
             << "Explore multiple solution paths",
                "Challenge your own assumptions",
                "Seek elegant and optimal solutions",
                "Build toward intellectual leadership in this area" >>,
         independence_score_impact |->
             "increases (approaching and building beyond full independence)" ]

\* a variant of update_memory that leaves capability_trend alone
update_memory_without_score(memory, intent, capability, now) ==
    IF memory.some
    THEN Some([memory.value EXCEPT
                 !.interaction_count = @ + 1,
                 !.request_history = Append(@, intent.surface_request),
                 !.last_interaction = Some(now)])
    ELSE memory

\* a variant of update_memory that sets the count instead of adding to it
update_memory_count_set(memory, intent, capability, now) ==
    IF memory.some
    THEN Some([memory.value EXCEPT
                 !.interaction_count = 1,
                 !.capability_trend = Append(@, capability.score),
                 !.request_history = Append(@, intent.surface_request),
                 !.last_interaction = Some(now)])
    ELSE memory

\* a variant of update_memory that leaves request_history alone
update_memory_without_label(memory, intent, capability, now) ==
    IF memory.some
    THEN Some([memory.value EXCEPT
                 !.interaction_count = @ + 1,
                 !.capability_trend = Append(@, capability.score),
                 !.last_interaction = Some(now)])
    ELSE memory

\* the update of lines 704-709; `now` is what datetime.now() returns
update_memory(memory, intent, capability, now) ==
    IF memory.some
    THEN Some([memory.value EXCEPT
                 !.interaction_count = @ + 1,
                 !.capability_trend = Append(@, capability.score),
                 !.request_history = Append(@, intent.surface_request),
                 !.last_interaction = Some(now)])
    ELSE memory

\* the choice of the design by capability level, lines 696-701
design_for_level(intent, capability, motivation_tone, memory) ==
    IF capability.level = "beginner"
    THEN design_for_beginner(intent, capability, motivation_tone, memory)
    ELSE IF capability.level = "intermediate"
    THEN design_for_intermediate(intent, capability, motivation_tone, memory)
    ELSE design_for_advanced(intent, capability, motivation_tone, memory)

\* a variant of create that updates the memory before it looks at the verdict
create_updating_first(intent, capability, ethical_verdict, memory, now) ==
    [ response |->
          IF ~ethical_verdict.should_proceed
          THEN create_redirect_response(intent, ethical_verdict)
          ELSE design_for_level(intent, capability,
                   LabelMemo[intent.underlying_motivation].motivation_tone, memory),
      memory |-> update_memory(memory, intent, capability, now) ]

\* GrowthResponseDesigner.create: the GrowthResponse it returns and the memory
\* object as the call leaves it
create(intent, capability, ethical_verdict, memory, now) ==
    IF ~ethical_verdict.should_proceed
    THEN [ response |-> create_redirect_response(intent, ethical_verdict),
           memory   |-> memory ]
    ELSE [ response |-> design_for_level(intent, capability,
                            LabelMemo[intent.underlying_motivation].motivation_tone,
                            memory),
           memory   |-> update_memory(memory, intent, capability, now) ]

(***************************************************************************)
(* MVG: the orchestrator                                                   *)
(***************************************************************************)
version == "2.0"
covenant_version == "Universal Covenant v1.0 + ML Enhancement"

UpperOf == [c \in {LowerOf[u] : u \in DOMAIN LowerOf} |->
              CHOOSE u \in DOMAIN LowerOf : LowerOf[u] = c]

RECURSIVE upper(_)
\* str.upper(): every character upper-cased, the string halved at each step
upper(s) ==
    IF Len(s) = 0 THEN ""
    ELSE IF Len(s) = 1 THEN (IF s \in DOMAIN UpperOf THEN UpperOf[s] ELSE s)
    ELSE upper(SubSeq(s, 1, Len(s) \div 2))
         \o upper(SubSeq(s, Len(s) \div 2 + 1, Len(s)))

\* the rule of 47 box-drawing characters, written in ASCII
LogRule == "==============================================="

\* MVG._generate_complete_log: the lines of the stripped log
generate_complete_log(intent, capability, ethical_verdict, growth_response) ==
    << LogRule,
       "MVG REASONING LOG v" \o version,
       "Following: " \o covenant_version,
       LogRule,
       "",
       "[STEP 1: INTENT ANALYSIS]",
       "Surface Request: " \o intent.surface_request,
       "Deep Need: " \o intent.deep_need,
       "Motivation: " \o intent.underlying_motivation,
       "Ethical Flags: " \o (IF intent.ethical_flags # <<>>
                             THEN JoinComma(intent.ethical_flags) ELSE "None"),
       "Growth Opportunity: " \o intent.growth_opportunity,
       "",
       "[STEP 2: CAPABILITY ASSESSMENT]",
       "Level: " \o upper(capability.level),
       "Score: " \o ToString(capability.score) \o "/100",
       "Strengths: " \o JoinComma(capability.strengths),
       "Weaknesses: " \o JoinComma(capability.weaknesses),
       "Evidence: " \o capability.evidence,
       "",
       "[STEP 3: ETHICAL EVALUATION]",
       "Should Proceed: " \o (IF ethical_verdict.should_proceed THEN "True" ELSE "False"),
       "Concerns: " \o (IF ethical_verdict.concerns # <<>>
                        THEN JoinComma(ethical_verdict.concerns) ELSE "None"),
       "",
       "[STEP 4: RESPONSE DESIGN]",
       "Approach: " \o capability.level \o " level response",
       "Capability Addressed: " \o growth_response.capability_addressed,
       "Expected Outcome: " \o growth_response.expected_outcome,
       "Independence Impact: " \o growth_response.independence_score_impact,
       "",
       "[FINAL REASONING]",
       growth_response.reasoning_log,
       LogRule >>

\* a variant of get_or_create_user_memory that keeps one entry in the table
get_or_create_user_memory_single(memories, user_id) ==
    IF user_id \notin DOMAIN memories
    THEN (user_id :> UserMemory(user_id))
    ELSE (user_id :> memories[user_id])

\* MVG.get_or_create_user_memory: the table as the call leaves it
get_or_create_user_memory(memories, user_id) ==
    IF user_id \notin DOMAIN memories
    THEN memories @@ (user_id :> UserMemory(user_id))
    ELSE memories

\* a variant of trend_of that counts an equal last entry as improving
trend_of_not_falling(memory) ==
    LET t == memory.capability_trend IN
    IF Len(t) > 1 /\ t[Len(t)] >= t[Len(t) - 1] THEN "improving" ELSE "stable"

\* the `trend` entry of the metadata
trend_of(memory) ==
    LET t == memory.capability_trend IN
    IF Len(t) > 1 /\ t[Len(t)] > t[Len(t) - 1] THEN "improving" ELSE "stable"

\* A call of an analysis stage on a memory object: the value the method
\* returns and the memory object as the call leaves it.  None of the three
\* methods assigns to a field of the memory or calls a method that does.

\* a variant of analyze_call that records the request in the memory
analyze_call_recording(user_query, memory) ==
    [ value  |-> analyze(user_query, memory),
      memory |-> IF memory.some
                 THEN Some([memory.value EXCEPT
                              !.request_history =
                                  Append(@, analyze(user_query, memory).surface_request)])
                 ELSE memory ]

\* intent_analyzer.analyze(user_query, memory)
analyze_call(user_query, memory) ==
    [ value |-> analyze(user_query, memory), memory |-> memory ]

\* a variant of assess_call that appends the score to the trend
assess_call_recording(user_query, memory) ==
    [ value  |-> assess(user_query, memory),
      memory |-> IF memory.some
                 THEN Some([memory.value EXCEPT
                              !.capability_trend =
                                  Append(@, assess(user_query, memory).score)])
                 ELSE memory ]

\* capability_assessor.assess(user_query, memory)
assess_call(user_query, memory) ==
    [ value |-> assess(user_query, memory), memory |-> memory ]

\* ethical_guardian.evaluate(intent, memory)
evaluate_call(intent, memory) ==
    [ value |-> evaluate(intent, memory), memory |-> memory ]

\* The steps of MVG.process_request for a text query.  Each operator below is
\* one step of the method, given the values of the local variables the steps
\* before it have set; the last returns the table as the call leaves it, the
\* dict the call returns and the values of its local variables.

\* "Package complete output", with memory the UserMemory as updated
package_output(table, user_query, user_id, intent, capability, ethical_verdict, growth_response, memory) ==
    [ user_memories |-> [table EXCEPT ![user_id] = memory],
      intent |-> intent,
      capability |-> capability,
      ethical_verdict |-> ethical_verdict,
      growth_response |-> growth_response,
      returned |->
        [ response |-> growth_response.response_text,
          reasoning_log |-> generate_complete_log(intent, capability,
                                                  ethical_verdict, growth_response),
          metadata |->
            [ user_id |-> user_id,
              interaction_number |-> memory.interaction_count + 1,
              intent_analysis |->
                [ surface |-> intent.surface_request,
                  deep_need |-> intent.deep_need,
                  motivation |-> intent.underlying_motivation,
                  growth_opportunity |-> intent.growth_opportunity ],
              capability_assessment |->
                [ level |-> capability.level,
                  score |-> capability.score,
                  trend |-> trend_of(memory),
                  strengths |-> capability.strengths,
                  weaknesses |-> capability.weaknesses ],
              ethical_evaluation |->
                [ should_proceed |-> ethical_verdict.should_proceed,
                  concerns |-> ethical_verdict.concerns ],
              expected_outcome |-> growth_response.expected_outcome,
              independence_impact |-> growth_response.independence_score_impact ] ] ]

\* a variant of append_context that keeps the record of this call only
append_context_replacing(memory, user_query, growth_response, capability, now) ==
    [memory EXCEPT
       !.conversation_context =
           << [ query            |-> user_query,
                response         |-> growth_response.response_text,
                capability_level |-> capability.level,
                capability_score |-> capability.score,
                timestamp        |-> ToString(now) ] >>]

\* memory.conversation_context.append({...}) of lines 967-974: the UserMemory
\* as the statement leaves it
append_context(memory, user_query, growth_response, capability, now) ==
    [memory EXCEPT
       !.conversation_context =
           Append(@, [ query            |-> user_query,
                       response         |-> growth_response.response_text,
                       capability_level |-> capability.level,
                       capability_score |-> capability.score,
                       timestamp        |-> ToString(now) ])]

\* "Update memory with this interaction", with designed what create returned
\* and the memory object as create left it
update_context(table, user_query, user_id, now, intent, capability, ethical_verdict, designed) ==
    package_output(table, user_query, user_id, intent, capability, ethical_verdict,
        designed.response,
        append_context(designed.memory.value, user_query, designed.response,
                       capability, now))

\* "Step 4: Design Growth Response", with evaluated the call of step 3
design_step(table, user_query, user_id, now, intent, capability, evaluated) ==
    update_context(table, user_query, user_id, now, intent, capability,
        evaluated.value,
        create(intent, capability, evaluated.value, evaluated.memory, now))

\* "Step 3: Ethical Evaluation", with assessed the call of step 2
evaluation_step(table, user_query, user_id, now, intent, assessed) ==
    design_step(table, user_query, user_id, now, intent, assessed.value,
        evaluate_call(intent, assessed.memory))

\* "Step 2: Assess Capability", with analyzed the call of step 1
capability_step(table, user_query, user_id, now, analyzed) ==
    evaluation_step(table, user_query, user_id, now, analyzed.value,
        assess_call(user_query, analyzed.memory))

\* "Step 1: Analyze Intent", with table the memory table after
\* get_or_create_user_memory
intent_step(table, user_query, user_id, now) ==
    capability_step(table, user_query, user_id, now,
        analyze_call(user_query, Some(table[user_id])))

\* MVG.process_request; now is what datetime.now() returns during the call
process_request(memories, user_query, user_id, now) ==
    intent_step(get_or_create_user_memory(memories, user_id),
                user_query, user_id, now)

(***************************************************************************)
(* The state machine: whole process_request calls, one at a time           *)
(***************************************************************************)
\* the user ids of the model: that of the demonstration and the default
Users == {"student_001", "default"}

\* the number of calls of a request sequence
MaxCalls == 3

\* the state before any call
Start ==
    [ user_memories |-> <<>>,
      clock         |-> 0,
      result        |-> [status |-> "none"],
      trace         |-> [kind |-> "none"],
      nonblocked    |-> [u \in Users |-> 0],
      completed     |-> [u \in Users |-> 0] ]

\* the state a call that returns r leaves, the call made in state s
Returned(s, user_query, user_id, r) ==
    [ user_memories |-> r.user_memories,
      clock         |-> s.clock + 1,
      result        |-> [status |-> "returned", value |-> r.returned],
      trace         |-> [ kind            |-> "request",
                          user_query      |-> user_query,
                          user_id         |-> user_id,
                          before          |-> s.user_memories,
                          intent          |-> r.intent,
                          capability      |-> r.capability,
                          ethical_verdict |-> r.ethical_verdict,
                          growth_response |-> r.growth_response ],
      nonblocked    |-> [s.nonblocked EXCEPT ![user_id] =
                           IF r.ethical_verdict.should_proceed THEN @ + 1 ELSE @],
      completed     |-> [s.completed EXCEPT ![user_id] = @ + 1] ]

\* the state a call process_request(user_query, user_id) with a text query
\* leaves, the call made in state s
AfterRequest(s, user_query, user_id) ==
    Returned(s, user_query, user_id,
             process_request(s.user_memories, user_query, user_id, s.clock + 1))

\* the state a call process_request(user_query, user_id) leaves when
\* user_query is no str (None, a number, a list): line 948 has fetched or
\* created the memory when line 163, query.lower(), raises AttributeError
AfterNonTextRequest(s, user_id) ==
    [ s EXCEPT
        !.user_memories = get_or_create_user_memory(s.user_memories, user_id),
        !.clock = s.clock + 1,
        !.result = [status |-> "raised", error |-> "AttributeError"],
        !.trace = [ kind    |-> "raised",
                    user_id |-> user_id,
                    before  |-> s.user_memories ] ]

State ==
    [ user_memories |-> user_memories,
      clock         |-> clock,
      result        |-> result,
      trace         |-> trace,
      nonblocked    |-> nonblocked,
      completed     |-> completed ]

Becomes(s) ==
    /\ user_memories' = s.user_memories
    /\ clock' = s.clock
    /\ result' = s.result
    /\ trace' = s.trace
    /\ nonblocked' = s.nonblocked
    /\ completed' = s.completed

Init ==
    /\ user_memories = Start.user_memories
    /\ clock = Start.clock
    /\ result = Start.result
    /\ trace = Start.trace
    /\ nonblocked = Start.nonblocked
    /\ completed = Start.completed

ProcessRequest(user_query, user_id) ==
    /\ clock < MaxCalls
    /\ Becomes(AfterRequest(State, user_query, user_id))

ProcessNonTextRequest(user_id) ==
    /\ clock < MaxCalls
    /\ Becomes(AfterNonTextRequest(State, user_id))

Next ==
    \/ \E user_query \in Queries, user_id \in Users :
         ProcessRequest(user_query, user_id)
    \/ \E user_id \in Users : ProcessNonTextRequest(user_id)

Spec == Init /\ [][Next]_vars

(***************************************************************************)
(* Sessions of one user: the requests follow a script, and a request with  *)
(* any text of CallQueries may follow every part of a script               *)
(***************************************************************************)
\* the user of the demonstration, line 1073
SessionUser == "student_001"

\* the length of the habitual session: _check_dependency reads the history
\* once interaction_count exceeds ten
HabitLength == 11

Habit == [i \in 1..HabitLength |-> QShortcut]

Scripts ==
    {Habit, <<QEssay, QMath, QStuck, QVerify>>, <<QShortcut, QWorked>>, <<QConfused, QWorked>>, <<QHarm>>}

IsPrefix(p, s) == Len(p) <= Len(s) /\ SubSeq(s, 1, Len(p)) = p

\* the queries of user_id so far, as conversation_context records them
asked(user_id) ==
    IF user_id \in DOMAIN user_memories
    THEN [i \in 1..Len(user_memories[user_id].conversation_context) |->
            user_memories[user_id].conversation_context[i].query]
    ELSE <<>>

\* process_request(user_query, SessionUser) in a session that has followed a
\* script so far
SessionRequest(user_query) ==
    /\ \E s \in Scripts : IsPrefix(asked(SessionUser), s)
    /\ Becomes(AfterRequest(State, user_query, SessionUser))

NextSession == \E user_query \in CallQueries : SessionRequest(user_query)

SpecSession == Init /\ [][NextSession]_vars

(***************************************************************************)
(* EthicalGuardian.evaluate on its own: every list of flags, with no       *)
(* memory, a new memory, the memories two long sessions leave, and         *)
(* memories of 10, 11 and 15 interactions whose history holds a given      *)
(* number of shortcut and "write" entries                                  *)
(***************************************************************************)
\* the flags evaluate knows (the keys of ETHICAL_WEIGHTS), in the order in
\* which _detect_ethical_flags appends those it raises
AllFlags ==
    << "potential_dependency_creation", "deception_intent", "potential_harm",
       "bias_or_discrimination", "coercion_pressure", "repetitive_dependency",
       "violation_dignity" >>

FlagLists ==
    { SelectSeq(AllFlags, LAMBDA f : f \in S) :
        S \in SUBSET {AllFlags[i] : i \in 1..Len(AllFlags)} }

\* an Intent with the given flags
IntentWith(flags) ==
    [ surface_request       |-> "General inquiry",
      deep_need             |-> "Knowledge or skill development",
      underlying_motivation |-> "Desire for growth and improvement",
      ethical_flags         |-> flags,
      growth_opportunity    |->
          identify_growth_opportunity("General inquiry",
              "Knowledge or skill development", flags) ]

RECURSIVE Replay(_, _, _)
\* the memory table after the requests `queries` of SessionUser, the first
\* made at time now
Replay(memories, queries, now) ==
    IF queries = <<>> THEN memories
    ELSE Replay(process_request(memories, queries[1], SessionUser, now).user_memories,
                Tail(queries), now + 1)

GuardianMemories ==
    { NoMemory, Some(UserMemory(SessionUser)) }
    \cup { Some(Replay(<<>>, queries, 1)[SessionUser]) :
              queries \in {Habit, [i \in 1..HabitLength |-> QWorked]} }
    \cup { Some([UserMemory(SessionUser) EXCEPT
                   !.interaction_count = n[1],
                   !.request_history =
                       [i \in 1..n[1] |->
                          IF i > n[2] THEN "General inquiry"
                          ELSE IF i % 2 = 0 THEN "WRITE my essay"
                          ELSE "Shortcut-seeking complete solution"]]) :
              n \in {<<10, 10>>, <<11, 6>>, <<11, 7>>, <<15, 9>>, <<15, 10>>} }

\* an intent and a memory are given
InitGuardian ==
    /\ user_memories = Start.user_memories
    /\ clock = Start.clock
    /\ result = Start.result
    /\ trace \in { [kind |-> "given", intent |-> IntentWith(flags), memory |-> memory] :
                     flags \in FlagLists, memory \in GuardianMemories }
    /\ nonblocked = Start.nonblocked
    /\ completed = Start.completed

\* ethical_guardian.evaluate(intent, memory) on what is given
EvaluateGiven ==
    /\ trace.kind = "given"
    /\ result' = [ status |-> "returned",
                   value  |-> evaluate_call(trace.intent, trace.memory).value ]
    /\ trace' = [ kind            |-> "evaluate",
                  intent          |-> trace.intent,
                  memory          |-> trace.memory,
                  ethical_verdict |-> evaluate_call(trace.intent, trace.memory).value ]
    /\ UNCHANGED <<user_memories, clock, nonblocked, completed>>

NextGuardian == EvaluateGiven

SpecGuardian == InitGuardian /\ [][NextGuardian]_vars

(***************************************************************************)
(* The analysis stages called on their own, on the memory of a session     *)
(* that follows a script or on no memory                                   *)
(***************************************************************************)
\* process_request(user_query, SessionUser), the next request of a script
ScriptRequest(user_query) ==
    /\ \E s \in Scripts : IsPrefix(Append(asked(SessionUser), user_query), s)
    /\ Becomes(AfterRequest(State, user_query, SessionUser))

\* the memory arguments a stage can be given
StageMemories == {NoMemory} \cup {Some(user_memories[u]) : u \in DOMAIN user_memories}

Stages == {"analyze", "assess", "evaluate"}

\* how often a stage is called in a row with the same arguments
MaxStageCalls == 2

\* whether the call before was this stage with this query on this memory object
Repeats(s, stage, user_query, memory) ==
    /\ s.trace.kind = stage
    /\ s.trace.user_query = user_query
    /\ s.trace.memory.some = memory.some
    /\ s.trace.memory.value.user_id = memory.value.user_id

\* a stage is called after a request, or again as it was just called
MayCall(stage, user_query, memory) ==
    \/ trace.kind \notin Stages
    \/ Repeats(State, stage, user_query, memory) /\ trace.times < MaxStageCalls

\* the state a call of a stage leaves, with call the value it returned and the
\* memory object as it left it
AfterStage(s, stage, user_query, memory, call) ==
    [ s EXCEPT
        !.user_memories =
            IF memory.some
            THEN [@ EXCEPT ![memory.value.user_id] = call.memory.value]
            ELSE @,
        !.result = [status |-> "returned", value |-> call.value],
        !.trace = [ kind       |-> stage,
                    user_query |-> user_query,
                    memory     |-> memory,
                    before     |-> s.user_memories,
                    times      |-> IF Repeats(s, stage, user_query, memory)
                                   THEN s.trace.times + 1
                                   ELSE 1,
                    previous   |-> IF Repeats(s, stage, user_query, memory)
                                   THEN s.result
                                   ELSE [status |-> "none"] ] ]

Analyze(user_query, memory) ==
    /\ MayCall("analyze", user_query, memory)
    /\ Becomes(AfterStage(State, "analyze", user_query, memory,
                       analyze_call(user_query, memory)))

Assess(user_query, memory) ==
    /\ MayCall("assess", user_query, memory)
    /\ Becomes(AfterStage(State, "assess", user_query, memory,
                       assess_call(user_query, memory)))

\* evaluate on the Intent analyze returns for user_query and memory
Evaluate(user_query, memory) ==
    /\ MayCall("evaluate", user_query, memory)
    /\ Becomes(AfterStage(State, "evaluate", user_query, memory,
                       evaluate_call(analyze(user_query, memory), memory)))

NextStages ==
    \/ \E user_query \in CallQueries : ScriptRequest(user_query)
    \/ \E user_query \in CallQueries, memory \in StageMemories :
         Analyze(user_query, memory)
    \/ \E user_query \in CallQueries, memory \in StageMemories :
         Assess(user_query, memory)
    \/ \E user_query \in CallQueries, memory \in StageMemories :
         Evaluate(user_query, memory)

SpecStages == Init /\ [][NextStages]_vars

(***************************************************************************)
(* process_request step by step: two calls in flight, each at one of the   *)
(* statements of lines 948-976, the steps of the two interleaved.  With    *)
(* trace.atomic a call runs from its first step to its return while no     *)
(* other call of the same user is between the two.                         *)
(***************************************************************************)
\* the two calls
CallIds == {1, 2}

\* a local variable of process_request that no statement has assigned yet
Unassigned == [assigned |-> FALSE]

\* the statements of process_request in the order of the method
Statements == <<"fetch", "analyze", "assess", "evaluate", "design", "append", "package">>

\* a call process_request(user_query, user_id) before its first statement;
\* now is what datetime.now() returns to it, fetched the UserMemory as line 948
\* found or made it, steps the statements it has executed so far
NewCall(user_query, user_id, now) ==
    [ user_query      |-> user_query,
      user_id         |-> user_id,
      now             |-> now,
      pc              |-> 1,
      steps           |-> <<>>,
      fetched         |-> Unassigned,
      intent          |-> Unassigned,
      capability      |-> Unassigned,
      ethical_verdict |-> Unassigned,
      growth_response |-> Unassigned ]

\* the calls start on the memory table of a new MVG or on that which a first
\* request of SessionUser has left; their texts are a shortcut request, a
\* request that shows work, and one the guardian blocks
InitPipeline ==
    /\ user_memories \in {Start.user_memories,
                          Replay(Start.user_memories, <<QShortcut>>, 0)}
    /\ clock = Start.clock
    /\ result = [status |-> "pipeline", values |-> [i \in CallIds |-> Unassigned]]
    /\ \E atomic \in BOOLEAN :
       \E queries \in [CallIds -> {QShortcut, QBecause, QHarm}], users \in [CallIds -> Users] :
          trace = [ kind   |-> "pipeline",
                    atomic |-> atomic,
                    start  |-> user_memories,
                    calls  |-> [i \in CallIds |->
                                  NewCall(queries[i], users[i], i)] ]
    /\ nonblocked = Start.nonblocked
    /\ completed = Start.completed

\* whether call i is between its first statement and its return
InFlight(i) == trace.calls[i].pc > 1 /\ trace.calls[i].pc <= Len(Statements)

\* a variant of At in which a call may execute its statement whatever the
\* other call is doing
At_any_time(i, statement) ==
    /\ trace.kind = "pipeline"
    /\ trace.calls[i].pc <= Len(Statements)
    /\ Statements[trace.calls[i].pc] = statement

\* call i is at statement and may execute it
At(i, statement) ==
    /\ trace.kind = "pipeline"
    /\ trace.calls[i].pc <= Len(Statements)
    /\ Statements[trace.calls[i].pc] = statement
    /\ trace.atomic =>
          \A j \in CallIds \ {i} :
              trace.calls[j].user_id = trace.calls[i].user_id => ~InFlight(j)

\* call i has executed its statement: its record becomes call, with the
\* statement counted, and the UserMemory of its user becomes memory
Executed(i, call, memory) ==
    /\ user_memories' = [user_memories EXCEPT ![call.user_id] = memory]
    /\ trace' = [trace EXCEPT
                   !.calls[i] = [call EXCEPT !.pc = @ + 1,
                                             !.steps = Append(@, Statements[call.pc])]]

\* line 948: memory = self.get_or_create_user_memory(user_id)
FetchMemory(i) ==
    /\ At(i, "fetch")
    /\ user_memories' = get_or_create_user_memory(user_memories, trace.calls[i].user_id)
    /\ trace' = [trace EXCEPT
                   !.calls[i].pc = @ + 1,
                   !.calls[i].steps = Append(@, "fetch"),
                   !.calls[i].fetched = user_memories'[trace.calls[i].user_id]]
    /\ UNCHANGED <<clock, result, nonblocked, completed>>

\* call i after the component it called has returned called.value, which the
\* statement assigns to variable, and left the memory object as called.memory
Assigned(i, call, variable, called) ==
    Executed(i, [call EXCEPT ![variable] = called.value], called.memory.value)

\* line 951: intent = self.intent_analyzer.analyze(user_query, memory)
AnalyzeIntent(i) ==
    /\ At(i, "analyze")
    /\ Assigned(i, trace.calls[i], "intent",
                analyze_call(trace.calls[i].user_query,
                             Some(user_memories[trace.calls[i].user_id])))
    /\ UNCHANGED <<clock, result, nonblocked, completed>>

\* line 954: capability = self.capability_assessor.assess(user_query, memory)
AssessCapability(i) ==
    /\ At(i, "assess")
    /\ Assigned(i, trace.calls[i], "capability",
                assess_call(trace.calls[i].user_query,
                            Some(user_memories[trace.calls[i].user_id])))
    /\ UNCHANGED <<clock, result, nonblocked, completed>>

\* line 957: ethical_verdict = self.ethical_guardian.evaluate(intent, memory)
EvaluateEthics(i) ==
    /\ At(i, "evaluate")
    /\ Assigned(i, trace.calls[i], "ethical_verdict",
                 evaluate_call(trace.calls[i].intent,
                               Some(user_memories[trace.calls[i].user_id])))
    /\ UNCHANGED <<clock, result, nonblocked, completed>>

\* call i after response_designer.create returned designed
Designed(i, call, designed) ==
    Executed(i, [call EXCEPT !.growth_response = designed.response],
             designed.memory.value)

\* lines 960-965: growth_response = self.response_designer.create(...)
DesignResponse(i) ==
    /\ At(i, "design")
    /\ Designed(i, trace.calls[i],
                create(trace.calls[i].intent, trace.calls[i].capability,
                       trace.calls[i].ethical_verdict,
                       Some(user_memories[trace.calls[i].user_id]),
                       trace.calls[i].now))
    /\ UNCHANGED <<clock, result, nonblocked, completed>>

\* lines 967-974: memory.conversation_context.append({...})
AppendContext(i) ==
    /\ At(i, "append")
    /\ Executed(i, trace.calls[i],
                append_context(user_memories[trace.calls[i].user_id],
                               trace.calls[i].user_query,
                               trace.calls[i].growth_response,
                               trace.calls[i].capability, trace.calls[i].now))
    /\ UNCHANGED <<clock, result, nonblocked, completed>>

\* call i has returned the dict of packaged
Packaged(i, call, packaged) ==
    /\ Executed(i, call, user_memories[call.user_id])
    /\ result' = [result EXCEPT !.values[i] = packaged.returned]
    /\ clock' = clock + 1
    /\ nonblocked' = [nonblocked EXCEPT ![call.user_id] =
                        IF call.ethical_verdict.should_proceed THEN @ + 1 ELSE @]
    /\ completed' = [completed EXCEPT ![call.user_id] = @ + 1]

\* lines 976-1005: return {...}, which reads the memory once more
PackageOutput(i) ==
    /\ At(i, "package")
    /\ Packaged(i, trace.calls[i],
                package_output(user_memories, trace.calls[i].user_query,
                               trace.calls[i].user_id, trace.calls[i].intent,
                               trace.calls[i].capability,
                               trace.calls[i].ethical_verdict,
                               trace.calls[i].growth_response,
                               user_memories[trace.calls[i].user_id]))

NextPipeline ==
    \/ \E i \in CallIds : FetchMemory(i)
    \/ \E i \in CallIds : AnalyzeIntent(i)
    \/ \E i \in CallIds : AssessCapability(i)
    \/ \E i \in CallIds : EvaluateEthics(i)
    \/ \E i \in CallIds : DesignResponse(i)
    \/ \E i \in CallIds : AppendContext(i)
    \/ \E i \in CallIds : PackageOutput(i)

SpecPipeline == InitPipeline /\ [][NextPipeline]_vars

(***************************************************************************)
(* CapabilityAssessor._analyze_learning_trajectory on its own: no memory   *)
(* and every capability_trend of up to MaxTrend scores                      *)
(***************************************************************************)
\* the length of the longest capability_trend given: one more than the five
\* entries the method reads
MaxTrend == 6

\* a memory, or none, is given; the scores differ by less than 5, by 30 and
\* by more than 50
InitTrajectory ==
    /\ user_memories = Start.user_memories
    /\ clock = Start.clock
    /\ result = Start.result
    /\ trace \in { [kind |-> "trend_given", memory |-> memory] :
                     memory \in {NoMemory} \cup
                        { Some([UserMemory(SessionUser) EXCEPT !.capability_trend = t]) :
                            t \in UNION {[1..n -> {0, 30, 34, 100}] :
                                         n \in 0..MaxTrend} } }
    /\ nonblocked = Start.nonblocked
    /\ completed = Start.completed

\* self._analyze_learning_trajectory(memory) on what is given
AnalyzeTrajectory ==
    /\ trace.kind = "trend_given"
    /\ result' = [ status |-> "returned",
                   value  |-> analyze_learning_trajectory(trace.memory) ]
    /\ trace' = [trace EXCEPT !.kind = "trajectory"]
    /\ UNCHANGED <<user_memories, clock, nonblocked, completed>>

SpecTrajectory == InitTrajectory /\ [][AnalyzeTrajectory]_vars

(***************************************************************************)
(* IntentAnalyzer._extract_surface_request on its own: for every set of    *)
(* patterns a query that matches exactly these, as typed and in capitals   *)
(***************************************************************************)
\* a query is given: for each pattern of matches a phrase that this pattern
\* alone matches
InitSurface ==
    /\ user_memories = Start.user_memories
    /\ clock = Start.clock
    /\ result = Start.result
    /\ \E matches \in SUBSET DOMAIN PATTERNS, capitals \in BOOLEAN :
          trace = [ kind       |-> "query_given",
                    matches    |-> matches,
                    user_query |->
                        (IF capitals THEN "SO: " ELSE "so: ")
                        \o (IF "genuine_learning" \in matches
                            THEN IF capitals THEN "WHY? " ELSE "why? " ELSE "")
                        \o (IF "advanced_exploration" \in matches
                            THEN IF capitals THEN "DEEPER. " ELSE "deeper. " ELSE "")
                        \o (IF "verification" \in matches
                            THEN IF capitals THEN "CHECK. " ELSE "check. " ELSE "")
                        \o (IF "collaboration" \in matches
                            THEN IF capitals THEN "GUIDE. " ELSE "guide. " ELSE "")
                        \o (IF "lazy_seeking" \in matches
                            THEN IF capitals THEN "JUST \t GIVE. " ELSE "just give. "
                            ELSE "")
                        \o (IF "direct_solution" \in matches
                            THEN IF capitals THEN "WRITE\nMY." ELSE "write my." ELSE "") ]
    /\ nonblocked = Start.nonblocked
    /\ completed = Start.completed

\* self._extract_surface_request(query) on what is given
ExtractSurface ==
    /\ trace.kind = "query_given"
    /\ result' = [ status |-> "returned",
                   value  |-> extract_surface_request(trace.user_query) ]
    /\ trace' = [trace EXCEPT !.kind = "surface"]
    /\ UNCHANGED <<user_memories, clock, nonblocked, completed>>

SpecSurface == InitSurface /\ [][ExtractSurface]_vars

(***************************************************************************)
(* Properties                                                              *)
(***************************************************************************)
\* the memory of the user of the last request as process_request found it
\* (new when the user was unknown) and as it left it
MemoryBefore == get_or_create_user_memory(trace.before, trace.user_id)[trace.user_id]
MemoryAfter == user_memories[trace.user_id]

\* the texts of the model that contain a word of the harm pattern of line 251
HarmfulQueries == {q \in CallQueries : Search(HarmWords, lower(q))}

\* the texts of the model that match the direct_solution and the lazy_seeking
\* pattern of lines 117-118
ShortcutQueries ==
    {q \in CallQueries : /\ PatternSearch("direct_solution", lower(q))
                         /\ PatternSearch("lazy_seeking", lower(q))}

\* the texts of the model that match the collaboration pattern of line 120
CollaborationQueries == {q \in CallQueries : PatternSearch("collaboration", lower(q))}

\* C1: for every intent and memory given to EthicalGuardian.evaluate,
\* should_proceed is false exactly when the harm, manipulation, dignity or bias
\* check is true; a true dependency check, whether it comes from the
\* dependency flag, the repetitive flag or the history, never by itself
\* makes should_proceed false.
C1_BlockedExactlyOnRedFlags ==
    trace.kind = "evaluate" =>
        LET verdict == trace.ethical_verdict
            red == \/ verdict.is_harmful
                   \/ verdict.is_manipulative
                   \/ verdict.violates_dignity
                   \/ InList("bias_or_discrimination", trace.intent.ethical_flags)
        IN /\ verdict.should_proceed = ~red
           /\ (verdict.creates_dependency /\ ~red) => verdict.should_proceed

\* C1 witness: with no flag at all the history of the habitual session makes
\* the dependency check true, and the verdict lets the request proceed
C1_Witness ==
    /\ trace.kind = "evaluate"
    /\ trace.intent.ethical_flags = <<>>
    /\ trace.ethical_verdict.creates_dependency
    /\ trace.ethical_verdict.should_proceed

\* C2: when the verdict of a process_request call is blocked, the response is
\* the verdict's redirect text, the user's interaction_count, capability_trend,
\* request_history and last_interaction are as before the call, and exactly
\* one record, that of this call, is appended to conversation_context.
C2_BlockedCallOnlyAppendsContext ==
    (trace.kind = "request" /\ ~trace.ethical_verdict.should_proceed) =>
        /\ trace.ethical_verdict.redirect_suggestion.some
        /\ result.value.response = trace.ethical_verdict.redirect_suggestion.value
        /\ MemoryAfter.interaction_count = MemoryBefore.interaction_count
        /\ MemoryAfter.capability_trend = MemoryBefore.capability_trend
        /\ MemoryAfter.request_history = MemoryBefore.request_history
        /\ MemoryAfter.last_interaction = MemoryBefore.last_interaction
        /\ Len(MemoryAfter.conversation_context)
             = Len(MemoryBefore.conversation_context) + 1
        /\ SubSeq(MemoryAfter.conversation_context, 1,
                  Len(MemoryBefore.conversation_context))
             = MemoryBefore.conversation_context
        /\ MemoryAfter.conversation_context[Len(MemoryAfter.conversation_context)].query
             = trace.user_query

\* C2 witness: a blocked call of a user who has interactions already
C2_Witness ==
    /\ trace.kind = "request"
    /\ ~trace.ethical_verdict.should_proceed
    /\ MemoryBefore.interaction_count >= 1
    /\ MemoryBefore.last_interaction.some

\* C3: after any sequence of process_request calls of which N of a user's
\* were not blocked, the user's interaction_count is N and capability_trend
\* has N entries.
C3_CountIsNonBlockedCalls ==
    \A u \in DOMAIN user_memories :
        /\ user_memories[u].interaction_count = nonblocked[u]
        /\ Len(user_memories[u].capability_trend) = nonblocked[u]

\* C3 witness: three calls of one user have returned, two of them not blocked
C3_Witness ==
    \E u \in DOMAIN user_memories :
        /\ completed[u] = 3
        /\ nonblocked[u] = 2
        /\ user_memories[u].interaction_count = 2

\* C4, as amended: no call decreases a user's interaction_count; a call that
\* is not blocked increases its user's interaction_count by exactly one and
\* appends exactly one score, its own, to capability_trend; a call that
\* returns blocked leaves both as they were.
C4_NonBlockedCallCountsOnce ==
    trace.kind = "request" =>
        /\ \A u \in DOMAIN trace.before :
             user_memories[u].interaction_count >= trace.before[u].interaction_count
        /\ IF trace.ethical_verdict.should_proceed
           THEN /\ MemoryAfter.interaction_count = MemoryBefore.interaction_count + 1
                /\ MemoryAfter.capability_trend
                     = Append(MemoryBefore.capability_trend, trace.capability.score)
           ELSE /\ MemoryAfter.interaction_count = MemoryBefore.interaction_count
                /\ MemoryAfter.capability_trend = MemoryBefore.capability_trend

\* C4 witness: a call that is not blocked, of a user with interactions, while
\* another user has a memory too
C4_Witness ==
    /\ trace.kind = "request"
    /\ trace.ethical_verdict.should_proceed
    /\ MemoryBefore.interaction_count >= 1
    /\ \E u \in DOMAIN trace.before : u # trace.user_id

\* C4, as stated: every process_request call that returns increases its user's
\* interaction_count by exactly one and appends exactly one score to
\* capability_trend.
C4_EveryCompletedCallCounts ==
    (trace.kind = "request" /\ result.status = "returned") =>
        /\ MemoryAfter.interaction_count = MemoryBefore.interaction_count + 1
        /\ Len(MemoryAfter.capability_trend) = Len(MemoryBefore.capability_trend) + 1

\* C5: for every query and every memory a sequence of calls leaves, the four
\* sub-scores lie in their ranges (reasoning 0..30, self-awareness 0..25,
\* effort 0..25, trajectory 0..20), the score is their sum and lies in 0..100,
\* and every value stored in capability_trend lies in 0..100.
C5_ScoresInRange ==
    /\ trace.kind = "request" =>
         /\ trace.capability.parts.reasoning \in 0..30
         /\ trace.capability.parts.awareness \in 0..25
         /\ trace.capability.parts.effort \in 0..25
         /\ trace.capability.parts.trajectory \in 0..20
         /\ trace.capability.score
              = trace.capability.parts.reasoning + trace.capability.parts.awareness
                + trace.capability.parts.effort + trace.capability.parts.trajectory
         /\ trace.capability.score \in 0..100
    /\ \A u \in DOMAIN user_memories :
         \A i \in 1..Len(user_memories[u].capability_trend) :
             user_memories[u].capability_trend[i] \in 0..100

\* C5 witness: a call on a memory with history whose self-awareness sub-score
\* is at its limit and whose score is stored
C5_Witness ==
    /\ trace.kind = "request"
    /\ trace.capability.parts.awareness = 25
    /\ trace.capability.parts.trajectory # 10
    /\ trace.ethical_verdict.should_proceed
    /\ MemoryAfter.capability_trend[Len(MemoryAfter.capability_trend)]
         = trace.capability.score

C7_HarmfulQueryBlocked ==
    (trace.kind = "request" /\ trace.user_query \in HarmfulQueries) =>
        /\ trace.ethical_verdict.is_harmful
        /\ ~trace.ethical_verdict.should_proceed
        /\ result.value.response = HarmRedirect

\* C7 witness: a query with "SABOTAGE" in capitals, asked after the habitual
\* session
C7_Witness ==
    /\ trace.kind = "request"
    /\ trace.user_query = QHarm
    /\ MemoryBefore.interaction_count = HabitLength
    /\ result.value.response = HarmRedirect

\* C8: for every verdict of EthicalGuardian.evaluate, redirect_suggestion is
\* present exactly when should_proceed is false.
C8_RedirectExactlyWhenBlocked ==
    trace.kind = "evaluate" =>
        trace.ethical_verdict.redirect_suggestion.some
          = ~trace.ethical_verdict.should_proceed

\* C8 witness: a verdict with the dependency concern alone, which has no
\* redirect
C8_Witness ==
    /\ trace.kind = "evaluate"
    /\ trace.ethical_verdict.concerns = <<"Creates unhealthy dependency">>
    /\ ~trace.ethical_verdict.redirect_suggestion.some

\* C9: for every query that matches both the direct-solution pattern and the
\* lazy-seeking pattern, whatever else it matches and whatever the memory,
\* analyze returns surface_request = "Shortcut-seeking complete solution" and
\* flags that contain "potential_dependency_creation".
C9_ShortcutSeekingLabelled ==
    (trace.kind = "request" /\ trace.user_query \in ShortcutQueries) =>
        /\ trace.intent.surface_request = "Shortcut-seeking complete solution"
        /\ InList("potential_dependency_creation", trace.intent.ethical_flags)

\* C9 witness: a query that matches the collaboration pattern as well, asked
\* in a session with history
C9_Witness ==
    /\ trace.kind = "request"
    /\ trace.user_query \in ShortcutQueries \cap CollaborationQueries
    /\ MemoryBefore.interaction_count >= 1

AnalyzerKeywords ==
    { "homework", "assignment", "exam", "write", "solve",
      "business", "startup", "company", "career",
      "life", "decision", "should i", "advice",
      "algorithm", "code", "debug", "architecture",
      "urgent", "deadline", "tomorrow", "tonight", "asap", "quickly", "fast",
      "hurry", "due",
      "afraid", "worried", "scared", "don't know", "lost", "confused", "stuck",
      "help", "desperate",
      "just give", "simply", "quick", "easy", "shortcut", "without", "don't want to",
      "why", "how", "curious", "wonder", "interested", "want to understand",
      "fake", "pretend", "trick", "manipulate", "deceive", "cheat", "fraud",
      "dishonest",
      "hurt", "damage", "attack", "harm", "destroy", "sabotage", "harmful",
      "racism", "sexism", "discriminat", "bigot", "hate", "prejudice", "stereotype",
      "must do", "force", "pressure", "coerce", "blackmail", "threaten" }

\* the texts of the model that match none of PATTERNS and hold none of the
\* analyzer's keywords
PlainQueries ==
    {q \in CallQueries :
        /\ \A key \in DOMAIN PATTERNS : ~PatternSearch(key, lower(q))
        /\ ~Search(AnalyzerKeywords, lower(q))}

\* C11: every process_request call with a text query, the empty string
\* included, for either user and on every memory earlier calls have left,
\* returns a result with exactly the entries response, reasoning_log and
\* metadata; and when the query matches no pattern and holds no keyword the
\* intent is the generic one: "General inquiry", "Knowledge or skill
\* development", "Desire for growth and improvement", no ethical flag,
\* "Develop problem-solving capability".
C11_TextRequestReturnsWithDefaults ==
    trace.kind = "request" =>
        /\ result.status = "returned"
        /\ DOMAIN result.value = {"response", "reasoning_log", "metadata"}
        /\ trace.user_query \in PlainQueries =>
              /\ result.value.metadata.intent_analysis =
                    [ surface            |-> "General inquiry",
                      deep_need          |-> "Knowledge or skill development",
                      motivation         |-> "Desire for growth and improvement",
                      growth_opportunity |-> "Develop problem-solving capability" ]
              /\ trace.intent.ethical_flags = <<>>

\* C11 witness: the empty query, asked by a user whose memory holds an
\* earlier counted request, has returned
C11_Witness ==
    /\ trace.kind = "request"
    /\ trace.user_query = ""
    /\ trace.user_query \in PlainQueries
    /\ trace.user_id \in DOMAIN trace.before
    /\ trace.before[trace.user_id].interaction_count >= 1
    /\ result.status = "returned"

\* C12: a process_request call whose query is no text ends in an error
\* raised to the caller, with no reply, and leaves the memory table as it was
\* before the call: no entry is created for an unseen user id and no existing
\* entry is changed.
C12_NonTextRequestLeavesTable ==
    trace.kind = "raised" =>
        /\ result.status = "raised"
        /\ user_memories = trace.before

\* C13: the trend entry of a process_request result is "improving" exactly
\* when the user's capability_trend, as it stands when the result is assembled
\* (after the designer's update, which is how the call leaves it), has at least
\* two entries and its last entry is greater than the one before; otherwise
\* it is "stable".
C13_TrendOfLastTwoScores ==
    trace.kind = "request" =>
        LET t == MemoryAfter.capability_trend
            rising == Len(t) >= 2 /\ t[Len(t)] > t[Len(t) - 1]
        IN /\ rising =>
                result.value.metadata.capability_assessment.trend = "improving"
           /\ ~rising =>
                result.value.metadata.capability_assessment.trend = "stable"

\* C13 witness: a call has returned "improving", and its score is above the
\* score of the user's call before
C13_Witness ==
    /\ trace.kind = "request"
    /\ result.value.metadata.capability_assessment.trend = "improving"
    /\ Len(MemoryAfter.capability_trend) >= 2
    /\ trace.capability.score > MemoryBefore.capability_trend[Len(MemoryBefore.capability_trend)]

\* the time a conversation_context record was written: datetime.now() of the
\* call, which the record holds as a string
TimeOf(record) == CHOOSE now \in 0..(MaxCalls + 1) : ToString(now) = record.timestamp

RECURSIVE ReplayAlone(_, _, _)
\* the memory table after the requests of user_id that `records` records,
\* made in this order and at their times with no request of another user
\* between them
ReplayAlone(memories, user_id, records) ==
    IF records = <<>> THEN memories
    ELSE ReplayAlone(process_request(memories, records[1].query, user_id,
                                     TimeOf(records[1])).user_memories,
                     user_id, Tail(records))

\* the table a user's first call finds or makes when the user is alone
Alone(user_id) == (user_id :> UserMemory(user_id))

\* C14: a process_request call for a user, returning or raising, adds the
\* user's entry to the memory table only when the user is unseen, removes no
\* entry, and leaves the entry of every other user as it was; and under every
\* interleaving of whole requests of the two users, each user's memory and the
\* result of each call are those of that user's requests made alone.
C14_UsersAreIsolated ==
    /\ trace.kind \in {"request", "raised"} =>
          /\ DOMAIN user_memories = DOMAIN trace.before \cup {trace.user_id}
          /\ \A u \in DOMAIN trace.before :
                u # trace.user_id => user_memories[u] = trace.before[u]
    /\ \A u \in DOMAIN user_memories :
          user_memories[u] =
              ReplayAlone(Alone(u), u, user_memories[u].conversation_context)[u]
    /\ trace.kind = "request" =>
          LET context == MemoryAfter.conversation_context
              earlier == ReplayAlone(Alone(trace.user_id), trace.user_id,
                                     SubSeq(context, 1, Len(context) - 1))
          IN result.value = process_request(earlier, trace.user_query,
                                            trace.user_id, clock).returned

\* C14 witness: a user's call has returned after a call of the other user that
\* came between it and the user's call before
C14_Witness ==
    /\ trace.kind = "request"
    /\ Len(MemoryAfter.conversation_context) = 2
    /\ \E u \in DOMAIN user_memories :
          /\ u # trace.user_id
          /\ Len(user_memories[u].conversation_context) = 1
          /\ TimeOf(user_memories[u].conversation_context[1]) = clock - 1

\* whether the text s ends with the text p
IsSuffix(p, s) == Len(p) <= Len(s) /\ SubSeq(s, Len(s) - Len(p) + 1, Len(s)) = p

\* the last request was the essay query of the demonstration, line 1078, made
\* as the first request of a user not seen before
EssayFirst ==
    /\ trace.kind = "request"
    /\ trace.user_query = QEssay
    /\ trace.user_id \notin DOMAIN trace.before

\* C15: the essay query as the first request of a new user yields surface
\* "Request for complete solution", motivation "Time pressure /
\* Procrastination" and should_proceed = true; its score is 38 (10 + 10 + 8 +
\* 10), so the level is intermediate, and the response opens with the
\* intermediate template that is the default for the urgency tone and ends
\* with the four strategic questions.
C15_EssayIsIntermediate ==
    EssayFirst =>
        /\ result.value.metadata.intent_analysis.surface = "Request for complete solution"
        /\ result.value.metadata.intent_analysis.motivation =
              "Time pressure / Procrastination"
        /\ result.value.metadata.ethical_evaluation.should_proceed
        /\ result.value.metadata.capability_assessment.score = 38
        /\ result.value.metadata.capability_assessment.level = "intermediate"
        /\ IsPrefix(INTERMEDIATE_TEMPLATES.genuine, result.value.response)
        /\ IsSuffix(strip(IntermediatePlan), result.value.response)

\* C15 witness: the essay query has been answered as a new user's first request
C15_Witness ==
    /\ EssayFirst
    /\ result.status = "returned"
    /\ MemoryAfter.interaction_count = 1

\* C15 as stated: the essay query as the first request of a new user is
\* assessed as beginner and answered with a beginner template followed by the
\* four-step plan.
C15_EssayIsBeginner ==
    EssayFirst =>
        /\ result.value.metadata.intent_analysis.surface = "Request for complete solution"
        /\ result.value.metadata.intent_analysis.motivation =
              "Time pressure / Procrastination"
        /\ result.value.metadata.ethical_evaluation.should_proceed
        /\ result.value.metadata.capability_assessment.level = "beginner"
        /\ \E tone \in DOMAIN BEGINNER_TEMPLATES :
              IsPrefix(BEGINNER_TEMPLATES[tone], result.value.response)
        /\ IsSuffix(strip(BeginnerPlan), result.value.response)

\* the last request was the second query of the demonstration, line 1082,
\* made by the user whose only request before was the essay query
MathAfterEssay ==
    /\ trace.kind = "request"
    /\ trace.user_query = QMath
    /\ trace.user_id \in DOMAIN trace.before
    /\ Len(MemoryBefore.conversation_context) = 1
    /\ MemoryBefore.conversation_context[1].query = QEssay

\* C16: when the same user, after the essay request, sends "Can you just
\* solve these math problems? I have 5 more assignments due.", the surface is
\* "Shortcut-seeking complete solution", the ethical flags include
\* "potential_dependency_creation", and should_proceed is true.
C16_MathIsShortcutSeeking ==
    MathAfterEssay =>
        /\ result.value.metadata.intent_analysis.surface =
              "Shortcut-seeking complete solution"
        /\ InList("potential_dependency_creation", trace.intent.ethical_flags)
        /\ result.value.metadata.ethical_evaluation.should_proceed

\* C17: a process_request call executes the statements fetch, analyze, assess,
\* evaluate, design, append (and the return) once each in this order; when no
\* other call of its user runs between them, the user's memory is as the fetch
\* found or made it until the design statement has run, and the intent, the
\* assessment and the verdict are those analyze, assess and evaluate give on
\* that memory, which earlier requests left and which holds nothing of this
\* request.
C17_StagesInOrderOnFetchedMemory ==
    trace.kind = "pipeline" =>
        \A i \in CallIds :
            LET call == trace.calls[i] IN
            /\ call.steps = SubSeq(Statements, 1, call.pc - 1)
            /\ ( /\ call.pc > 1
                 /\ \/ trace.atomic
                    \/ \A j \in CallIds \ {i} :
                          trace.calls[j].user_id # call.user_id ) =>
                  /\ call.pc <= 5 => user_memories[call.user_id] = call.fetched
                  /\ call.pc > 2 =>
                        call.intent = analyze(call.user_query, Some(call.fetched))
                  /\ call.pc > 3 =>
                        call.capability = assess(call.user_query, Some(call.fetched))
                  /\ call.pc > 4 =>
                        call.ethical_verdict = evaluate(call.intent, Some(call.fetched))

\* C17 witness: a call that began on the memory an earlier request of the
\* same user had left has run its design statement, which counted it
C17_Witness ==
    /\ trace.kind = "pipeline"
    /\ trace.atomic
    /\ \E i \in CallIds :
          /\ trace.calls[i].pc = 6
          /\ trace.calls[i].fetched.interaction_count >= 1
          /\ \E j \in CallIds \ {i} :
                /\ trace.calls[j].user_id = trace.calls[i].user_id
                /\ trace.calls[j].pc > Len(Statements)
          /\ user_memories[trace.calls[i].user_id].interaction_count
                = trace.calls[i].fetched.interaction_count + 1

\* what the two calls leave when call first runs from its first statement to
\* its return before the other call begins: the memory table and the dict
\* each call returns
Serial(first, second) ==
    LET a == process_request(trace.start, trace.calls[first].user_query,
                             trace.calls[first].user_id, trace.calls[first].now)
        b == process_request(a.user_memories, trace.calls[second].user_query,
                             trace.calls[second].user_id, trace.calls[second].now)
    IN [ user_memories |-> b.user_memories,
         values        |-> (first :> a.returned) @@ (second :> b.returned) ]

\* C18: when each call runs from its fetch to its return with no other call
\* of its user in between, the memory table and the two returned dicts are,
\* once both calls have returned, those of one of the two serial orders.
C18_AtomicCallsAreSerial ==
    ( /\ trace.kind = "pipeline"
      /\ trace.atomic
      /\ \A i \in CallIds : trace.calls[i].pc > Len(Statements) ) =>
        [user_memories |-> user_memories, values |-> result.values]
            \in {Serial(1, 2), Serial(2, 1)}

\* C18 witness: without the atomicity two calls of one user have both fetched
\* the memory before either ran create, both have returned, and what they
\* left is that of neither serial order
C18_Witness ==
    /\ trace.kind = "pipeline"
    /\ ~trace.atomic
    /\ \A i \in CallIds : trace.calls[i].pc > Len(Statements)
    /\ trace.calls[1].user_id = trace.calls[2].user_id
    /\ trace.calls[1].fetched = trace.calls[2].fetched
    /\ \A i \in CallIds : trace.calls[i].ethical_verdict.should_proceed
    /\ [user_memories |-> user_memories, values |-> result.values]
          \notin {Serial(1, 2), Serial(2, 1)}

\* the UserMemory of user_id, that of a new user when the table has none
MemoryOf(user_id) ==
    IF user_id \in DOMAIN user_memories
    THEN user_memories[user_id]
    ELSE UserMemory(user_id)

\* C19: in every state that process_request calls made one after the other
\* reach, blocked or not, each user's interaction_count, the length of
\* capability_trend and the length of request_history equal the number of the
\* user's calls that were not blocked, the length of conversation_context
\* equals the number of the user's calls that returned, and interaction_count
\* does not exceed the length of conversation_context.
C19_CountsFollowTheCalls ==
    \A user_id \in Users :
        /\ MemoryOf(user_id).interaction_count = nonblocked[user_id]
        /\ Len(MemoryOf(user_id).capability_trend) = nonblocked[user_id]
        /\ Len(MemoryOf(user_id).request_history) = nonblocked[user_id]
        /\ Len(MemoryOf(user_id).conversation_context) = completed[user_id]
        /\ MemoryOf(user_id).interaction_count
             <= Len(MemoryOf(user_id).conversation_context)

\* C19 witness: a user with a blocked call and calls that were not blocked,
\* whose context is longer than the history
C19_Witness ==
    \E user_id \in Users :
        /\ nonblocked[user_id] = 2
        /\ completed[user_id] = 3
        /\ Len(MemoryOf(user_id).request_history) = 2
        /\ Len(MemoryOf(user_id).conversation_context) = 3

\* C20: a process_request call leaves the earlier entries of the user's
\* request_history, capability_trend and conversation_context in place and
\* appends at most one entry to each, leaves every other user's memory as it
\* was, and topic_expertise and learning_progress are empty for every user in
\* every state.
C20_MemoryOnlyGrowsAtTheEnd ==
    /\ \A user_id \in DOMAIN user_memories :
          /\ user_memories[user_id].topic_expertise = <<>>
          /\ user_memories[user_id].learning_progress = <<>>
    /\ trace.kind \in {"request", "raised"} =>
          /\ IsPrefix(MemoryBefore.request_history, MemoryAfter.request_history)
          /\ Len(MemoryAfter.request_history)
               <= Len(MemoryBefore.request_history) + 1
          /\ IsPrefix(MemoryBefore.capability_trend, MemoryAfter.capability_trend)
          /\ Len(MemoryAfter.capability_trend)
               <= Len(MemoryBefore.capability_trend) + 1
          /\ IsPrefix(MemoryBefore.conversation_context,
                      MemoryAfter.conversation_context)
          /\ Len(MemoryAfter.conversation_context)
               <= Len(MemoryBefore.conversation_context) + 1
          /\ \A user_id \in DOMAIN trace.before \ {trace.user_id} :
                user_memories[user_id] = trace.before[user_id]

\* C20 witness: a call that was not blocked has appended to the three lists
\* of a user who had entries in each
C20_Witness ==
    /\ trace.kind = "request"
    /\ trace.ethical_verdict.should_proceed
    /\ Len(MemoryBefore.request_history) >= 1
    /\ Len(MemoryBefore.conversation_context) >= 1
    /\ Len(MemoryAfter.request_history) = Len(MemoryBefore.request_history) + 1
    /\ Len(MemoryAfter.capability_trend) = Len(MemoryBefore.capability_trend) + 1
    /\ Len(MemoryAfter.conversation_context)
         = Len(MemoryBefore.conversation_context) + 1
    /\ MemoryAfter.topic_expertise = <<>>
    /\ MemoryAfter.learning_progress = <<>>

\* C21: the interaction_number in the metadata of a user's k-th call that was
\* not blocked is k, the user's interaction_count right after the call; the
\* first request of a new user reports 1.
C21_InteractionNumberIsCount ==
    (trace.kind = "request" /\ trace.ethical_verdict.should_proceed) =>
        /\ result.value.metadata.interaction_number = nonblocked[trace.user_id]
        /\ result.value.metadata.interaction_number = MemoryAfter.interaction_count

\* C22: the trajectory sub-score is 10 when capability_trend has fewer than
\* two entries (or there is no memory); otherwise, with first and last the
\* earliest and the latest of the last five entries, it is
\* 10 + min(10, (last - first) div 5) when last > first, 5 when last < first
\* and 10 when they are equal; it is 5 or lies in 10..20, and entries before
\* the last five have no part in it.
C22_TrajectoryOfLastFive ==
    trace.kind = "trajectory" =>
        LET trend == IF trace.memory.some
                     THEN trace.memory.value.capability_trend
                     ELSE <<>>
            first == trend[IF Len(trend) > 5 THEN Len(trend) - 4 ELSE 1]
            last == trend[Len(trend)]
        IN /\ Len(trend) < 2 => result.value = 10
           /\ Len(trend) >= 2 =>
                 /\ last > first =>
                       result.value = 10 + (IF (last - first) \div 5 < 10
                                            THEN (last - first) \div 5
                                            ELSE 10)
                 /\ last < first => result.value = 5
                 /\ last = first => result.value = 10
           /\ result.value = 5 \/ result.value \in 10..20

\* C22 witness: the trend fell from its first entry to its latest, but rose
\* by 30 within the last five entries, and the sub-score is 16
C22_Witness ==
    /\ trace.kind = "trajectory"
    /\ trace.memory.some
    /\ Len(trace.memory.value.capability_trend) = 6
    /\ trace.memory.value.capability_trend[1] = 100
    /\ trace.memory.value.capability_trend[2] = 0
    /\ trace.memory.value.capability_trend[6] = 30
    /\ result.value = 16

C24_RedirectOfFirstConcern ==
    (trace.kind = "evaluate" /\ ~trace.ethical_verdict.should_proceed) =>
        LET verdict == trace.ethical_verdict
            text == trace.ethical_verdict.redirect_suggestion.value
        IN /\ verdict.is_harmful =>
                 IsPrefix("I cannot assist with this request as it may cause harm.", text)
           /\ (~verdict.is_harmful /\ verdict.is_manipulative) =>
                 IsPrefix("I can't help with deception, but", text)
           /\ ( /\ ~verdict.is_harmful /\ ~verdict.is_manipulative
                /\ verdict.creates_dependency ) =>
                 IsPrefix("I notice you might be building a pattern", text)
           /\ ( /\ ~verdict.is_harmful /\ ~verdict.is_manipulative
                /\ ~verdict.creates_dependency /\ verdict.violates_dignity ) =>
                 IsPrefix("This request involves pressure or coercion", text)
           /\ ( /\ ~verdict.is_harmful /\ ~verdict.is_manipulative
                /\ ~verdict.creates_dependency /\ ~verdict.violates_dignity ) =>
                 IsPrefix("I notice this request involves stereotyping", text)
           /\ ~IsPrefix("I cannot fulfill this request as stated", text)

\* C24 witness: a verdict blocked for coercion alone, with a dependency check
\* that the history made true, carries the dependency message
C24_Witness ==
    /\ trace.kind = "evaluate"
    /\ trace.intent.ethical_flags = <<"coercion_pressure">>
    /\ ~trace.ethical_verdict.should_proceed
    /\ trace.ethical_verdict.concerns
         = <<"Creates unhealthy dependency", "Violates human dignity">>
    /\ IsPrefix("I notice you might be building a pattern",
                trace.ethical_verdict.redirect_suggestion.value)

\* C25: a request that proceeds and is assessed as advanced opens with "Your
\* analysis looks thoughtful. Let's stress-test it." when its surface is
\* "Verification/validation request", and with the complexity opening when
\* its surface concerns neither verification nor optimisation.
C25_VerificationOpening ==
    ( /\ trace.kind = "request"
      /\ trace.ethical_verdict.should_proceed
      /\ trace.capability.level = "advanced" ) =>
        IF trace.intent.surface_request = "Verification/validation request"
        THEN IsPrefix("Your analysis looks thoughtful. Let's stress-test it.",
                      result.value.response)
        ELSE IsPrefix("You're at a level where the real growth comes from "
                      \o "wrestling with complexity.",
                      result.value.response)

\* C26: the surface label follows from the set of patterns the query matches,
\* for every such set: direct_solution with lazy_seeking gives
\* "Shortcut-seeking complete solution", direct_solution without it "Request
\* for complete solution"; otherwise collaboration, then verification, then
\* advanced_exploration, then genuine_learning decide in this order; no match
\* gives "General inquiry"; lazy_seeking without direct_solution changes
\* nothing.
C26_SurfaceCascade ==
    trace.kind = "surface" =>
        result.value =
            IF "direct_solution" \in trace.matches
            THEN IF "lazy_seeking" \in trace.matches
                 THEN "Shortcut-seeking complete solution"
                 ELSE "Request for complete solution"
            ELSE IF "collaboration" \in trace.matches
            THEN "Collaborative learning request"
            ELSE IF "verification" \in trace.matches
            THEN "Verification/validation request"
            ELSE IF "advanced_exploration" \in trace.matches
            THEN "Advanced exploration request"
            ELSE IF "genuine_learning" \in trace.matches
            THEN "Request for understanding/learning"
            ELSE "General inquiry"

\* C26 witness: a query in capitals that matches lazy_seeking and every
\* pattern but direct_solution and collaboration is a verification request
C26_Witness ==
    /\ trace.kind = "surface"
    /\ trace.matches
         = {"lazy_seeking", "verification", "advanced_exploration", "genuine_learning"}
    /\ trace.user_query = "SO: WHY? DEEPER. CHECK. JUST \t GIVE. "
    /\ result.value = "Verification/validation request"

C28_LabelsAgreeWithLevel ==
    trace.kind = "request" =>
        /\ (trace.capability.level = "advanced")
             = InList("Demonstrates advanced understanding",
                      trace.capability.strengths)
        /\ (trace.capability.level = "beginner")
             = InList("Needs foundational knowledge and practice",
                      trace.capability.weaknesses)
        /\ (trace.capability.level = "intermediate")
             = /\ InList("Has solid foundational knowledge",
                         trace.capability.strengths)
               /\ InList("Can deepen understanding of nuanced concepts",
                         trace.capability.weaknesses)

\* C29: for every query and memory the growth_opportunity of the Intent is
\* "Transform complete solution request into guided learning" exactly when
\* "potential_dependency_creation" is flagged and "Develop problem-solving
\* capability" otherwise, and the deep_need is neither of the two values the
\* remaining comparisons of _identify_growth_opportunity test for.
C29_TwoGrowthOpportunities ==
    trace.kind = "analyze" =>
        /\ result.value.growth_opportunity
             = IF InList("potential_dependency_creation", result.value.ethical_flags)
               THEN "Transform complete solution request into guided learning"
               ELSE "Develop problem-solving capability"
        /\ result.value.deep_need \notin
             {"Confidence and structured thinking", "Clarity and self-understanding"}

\* C29 witness: a query about a business, whose deep need is the confidence
\* label of today, raises no dependency flag and gets the default
C29_Witness ==
    /\ trace.kind = "analyze"
    /\ trace.user_query = "should i start a business"
    /\ result.value.deep_need = "Strategic thinking and confidence"
    /\ ~InList("potential_dependency_creation", result.value.ethical_flags)
    /\ result.value.growth_opportunity = "Develop problem-solving capability"
====
